---------------------------- MODULE Spec2Model ----------------------------
(***************************************************************************)
(* Receipt validation pipeline and shop order flow of the Telegram shop    *)
(* bot.                                                                    *)
(*                                                                         *)
(* Texts (OCR output, LLM answers, messages shown to the user) are         *)
(* sequences of one-character strings, so that strip, lower, split and     *)
(* strptime are computed character by character as Python computes them.  *)
(* A fixed message of the program is written in English, in one piece.    *)
(***************************************************************************)
EXTENDS Integers, Sequences, FiniteSets, TLC

\* ------------------------------------------------------------ bounds
\* Days the Moscow clock can show (day of the month, March 2025).
MaxDay == 2
\* Longest classifier answer enumerated by SpecIsReceipt.
MaxAnsLen == 5
\* Items a cart can hold, all quantities added up.
MaxItems == 1
\* Receipt messages sent in one behaviour of Spec.
MaxMsgs == 2
\* Items a cart can hold in SpecCart, all quantities added up.
MaxCartItems == 3

\* The element of a one-element set: {F(x) : x \in {e}} computes e once.
Only(S) == CHOOSE x \in S : TRUE

\* ------------------------------------------------------------ text
Whitespace == {" ", "\n", "\t"}

DigitChars == <<"0", "1", "2", "3", "4", "5", "6", "7", "8", "9">>

DigitSet == {DigitChars[i] : i \in 1..10}

DigitVal(c) == (CHOOSE i \in 1..10 : DigitChars[i] = c) - 1

RECURSIVE LStrip(_)
LStrip(s) ==
  IF s # <<>> /\ Head(s) \in Whitespace THEN LStrip(Tail(s)) ELSE s

RECURSIVE RStrip(_)
RStrip(s) ==
  IF s # <<>> /\ s[Len(s)] \in Whitespace
  THEN RStrip(SubSeq(s, 1, Len(s) - 1))
  ELSE s

\* str.strip()
strip(s) == RStrip(LStrip(s))

LowerChar(c) ==
  CASE c = "T" -> "t"
    [] c = "R" -> "r"
    [] c = "U" -> "u"
    [] c = "E" -> "e"
    [] c = "F" -> "f"
    [] c = "A" -> "a"
    [] c = "L" -> "l"
    [] c = "S" -> "s"
    [] OTHER -> c

\* str.lower()
lower(s) == [i \in 1..Len(s) |-> LowerChar(s[i])]

\* c in s
Contains(s, c) == \E i \in 1..Len(s) : s[i] = c

\* str.replace(c, new), c one character
RECURSIVE replace(_, _, _)
replace(s, c, new) ==
  IF s = <<>> THEN <<>>
  ELSE (IF Head(s) = c THEN new ELSE <<Head(s)>>) \o replace(Tail(s), c, new)

\* str.isdigit()
isdigit(s) == s # <<>> /\ \A i \in 1..Len(s) : s[i] \in DigitSet

FirstIndex(s, c) ==
  IF \E i \in 1..Len(s) : s[i] = c
  THEN CHOOSE i \in 1..Len(s) : s[i] = c /\ \A j \in 1..(i - 1) : s[j] # c
  ELSE 0

\* str.split(c): the pieces between the occurrences of c, at least one piece.
RECURSIVE split(_, _)
split(s, c) ==
  LET i == FirstIndex(s, c)
  IN  IF i = 0
      THEN <<s>>
      ELSE <<SubSeq(s, 1, i - 1)>> \o split(SubSeq(s, i + 1, Len(s)), c)

RECURSIVE NatOf(_)
NatOf(s) ==
  IF s = <<>> THEN 0
  ELSE 10 * NatOf(SubSeq(s, 1, Len(s) - 1)) + DigitVal(s[Len(s)])

\* ------------------------------------------------------------ dates
NoDate == [d |-> 0, m |-> 0, y |-> 0]

IsLeap(y) == (y % 4 = 0 /\ y % 100 # 0) \/ y % 400 = 0

DaysInMonth(m, y) ==
  CASE m \in {4, 6, 9, 11} -> 30
    [] m = 2 -> IF IsLeap(y) THEN 29 ELSE 28
    [] OTHER -> 31

\* The directive %d of strptime: 3[0-1] | [1-2]\d | 0[1-9] | [1-9] | " "[1-9]
DayMatch(s) ==
  \/ Len(s) = 2 /\ s[1] = "3" /\ s[2] \in {"0", "1"}
  \/ Len(s) = 2 /\ s[1] \in {"1", "2"} /\ s[2] \in DigitSet
  \/ Len(s) = 2 /\ s[1] \in {"0", " "} /\ s[2] \in DigitSet \ {"0"}
  \/ Len(s) = 1 /\ s[1] \in DigitSet \ {"0"}

\* The directive %m of strptime: 1[0-2] | 0[1-9] | [1-9]
MonthMatch(s) ==
  \/ Len(s) = 2 /\ s[1] = "1" /\ s[2] \in {"0", "1", "2"}
  \/ Len(s) = 2 /\ s[1] = "0" /\ s[2] \in DigitSet \ {"0"}
  \/ Len(s) = 1 /\ s[1] \in DigitSet \ {"0"}

\* The directive %Y of strptime: exactly four digits.
YearMatch(s) == Len(s) = 4 /\ \A i \in 1..4 : s[i] \in DigitSet

FieldVal(s) == NatOf(SelectSeq(s, LAMBDA c : c \in DigitSet))

\* datetime.strptime(s, '%d.%m.%Y').date(); NoDate stands for ValueError.
\* The three directives hold no '.', and the whole string must be consumed,
\* so the match is decided piece by piece.
strptime_parts(parts) ==
  IF /\ Len(parts) = 3
     /\ DayMatch(parts[1])
     /\ MonthMatch(parts[2])
     /\ YearMatch(parts[3])
  THEN LET d == FieldVal(parts[1])
           m == FieldVal(parts[2])
           y == FieldVal(parts[3])
       IN  IF y >= 1 /\ d <= DaysInMonth(m, y)
           THEN [d |-> d, m |-> m, y |-> y]
           ELSE NoDate
  ELSE NoDate

strptime(s) == Only({strptime_parts(parts) : parts \in {split(s, ".")}})

Pad2(n) == <<DigitChars[(n \div 10) + 1], DigitChars[(n % 10) + 1]>>

Pad4(n) == Pad2(n \div 100) \o Pad2(n % 100)

\* A date written DD.MM.YYYY, as the LLM is asked to write it.
FormatDate(date) == Pad2(date.d) \o <<".">> \o Pad2(date.m) \o <<".">> \o Pad4(date.y)


\* ------------------------------------------------------------ external calls
\* What an external call (OCR engine, LLM service) gives back: a text, or an
\* exception.  Unused marks a call the run never made.
Returns(v) == [raise |-> FALSE, val |-> v]

Raises == [raise |-> TRUE, val |-> <<>>]

Unused == [raise |-> FALSE, val |-> <<"n/a">>]

\* str(e) of an exception.
ErrText == <<"<exception text>">>

\* ------------------------------------------------------------ messages
MsgFileNotFound == <<"File not found">>

MsgPdfNoPages == <<"Could not process the PDF document">>

MsgPoppler == <<"PDF processing requires Poppler to be installed">>

MsgPdfError == <<"PDF document processing error: ">> \o ErrText

MsgFileError == <<"File processing error: ">> \o ErrText

MsgNoText == <<"Could not recognize the text in the image">>

MsgNotReceipt == <<"The document sent is not a payment receipt">>

MsgNoDate == <<"Could not determine the date in the receipt">>

MsgSaveError == <<"Error saving the receipt file">>

MsgOk == <<"Receipt verified successfully">>

\* shop/main.py, process_payment_receipt
MsgDateMismatch ==
  <<"The date of the receipt differs from the date the order was placed. The order cannot be accepted.">>

MsgOrderOk == <<"Order placed. A confirmation was sent to your email.">>

MsgCheckError == <<"An error occurred while checking the receipt. Please try again.">>

MsgHandlerError == <<"An error occurred while processing the receipt. Please try again.">>

\* ------------------------------------------------------------ clock, files
\* The Moscow clock: a date and the second of the day.  Two events at the
\* same clock value happen within the same second.
Tods == {0, 1}

Dates == {[d |-> k, m |-> 3, y |-> 2025] : k \in 1..MaxDay}

NoTs == [date |-> NoDate, tod |-> 0]

NextDay(date) ==
  IF date.d < DaysInMonth(date.m, date.y)
  THEN [date EXCEPT !.d = date.d + 1]
  ELSE IF date.m < 12
       THEN [d |-> 1, m |-> date.m + 1, y |-> date.y]
       ELSE [d |-> 1, m |-> 1, y |-> date.y + 1]

\* timedelta(hours = h) added to a clock value, h a whole number of days.
RECURSIVE AddHours(_, _)
AddHours(ts, h) ==
  IF h < 24 THEN ts
  ELSE AddHours([ts EXCEPT !.date = NextDay(ts.date)], h - 24)

\* Paths.  A path is named by what the code builds it from.
NoPath == [kind |-> "none", user |-> 0, msg |-> 0, ts |-> NoTs, ext |-> ""]

\* f"temp_{user_id}_{message.message_id}{ext}"
TempFile(user_id, message_id, ext) ==
  [kind |-> "temp", user |-> user_id, msg |-> message_id, ts |-> NoTs, ext |-> ext]

\* f"receipt_{user_id}_{timestamp}{ext}" under temp_receipts/, the timestamp
\* being the clock to the second.
ReceiptFile(user_id, ts, ext) ==
  [kind |-> "receipt", user |-> user_id, msg |-> 0, ts |-> ts, ext |-> ext]

\* tempfile.mkdtemp(): a directory no other call uses (calls do not overlap).
TempDir(image_path) == [image_path EXCEPT !.kind = "tmpdir", !.ext = ""]

\* os.path.join(temp_dir, 'converted.jpg')
ConvertedImg(image_path) == [image_path EXCEPT !.kind = "converted", !.ext = ".jpg"]

\* The file system: a set of files, each a path and the submission whose
\* bytes it holds (0 for a directory).
Exists(fs, p) == \E f \in fs : f.path = p

DataOf(fs, p) == (CHOOSE f \in fs : f.path = p).data

Write(fs, p, data) == {f \in fs : f.path # p} \cup {[path |-> p, data |-> data]}

Remove(fs, p) == {f \in fs : f.path # p}

\* ------------------------------------------------------------ classifier
TrueStr == <<"t", "r", "u", "e">>

NotFoundStr == <<"n", "o", "t", "_", "f", "o", "u", "n", "d">>

NoReason == [none |-> TRUE, val |-> <<>>]

\* is_receipt_parts without the lower-casing of line 86.
is_receipt_parts_no_lower(content) ==
  LET result == strip(content)
      parts == split(result, "|")
  IN  [is_valid |-> parts[1] = TrueStr,
       reason |-> IF Len(parts) > 1
                  THEN [none |-> FALSE, val |-> parts[2]]
                  ELSE NoReason]

\* is_receipt, the parsing of the answer: status and reason.
is_receipt_parts(content) ==
  LET result == lower(strip(content))
      parts == split(result, "|")
  IN  [is_valid |-> parts[1] = TrueStr,
       reason |-> IF Len(parts) > 1
                  THEN [none |-> FALSE, val |-> parts[2]]
                  ELSE NoReason]

\* is_receipt whose exception handler answers True.
is_receipt_fail_open(text, response) ==
  IF response.raise THEN TRUE ELSE is_receipt_parts(response.val).is_valid

\* is_receipt(text): response is what the chat-completion call gave for text.
is_receipt(text, response) ==
  IF response.raise THEN FALSE ELSE is_receipt_parts(response.val).is_valid

\* extract_date_from_receipt(text); NoDate stands for None.
extract_date_from_receipt(text, response) ==
  IF response.raise THEN NoDate
  ELSE LET date_str == strip(response.val)
       IN  IF date_str = NotFoundStr THEN NoDate ELSE strptime(date_str)

\* analyze_receipt extracting the date before the validity check.
analyze_receipt_date_first(text, env) ==
  Only({IF ~is_receipt(text, env.valid)
        THEN [is_valid |-> FALSE, receipt_date |-> NoDate, message |-> MsgNotReceipt,
              calls |-> <<"extract_date_from_receipt", "is_receipt">>]
        ELSE IF receipt_date = NoDate
        THEN [is_valid |-> FALSE, receipt_date |-> NoDate, message |-> MsgNoDate,
              calls |-> <<"extract_date_from_receipt", "is_receipt">>]
        ELSE [is_valid |-> TRUE, receipt_date |-> receipt_date, message |-> MsgOk,
              calls |-> <<"extract_date_from_receipt", "is_receipt">>] :
        receipt_date \in {extract_date_from_receipt(text, env.date)}})

\* analyze_receipt without the test of line 116 for a missing date.
analyze_receipt_no_date_check(text, env) ==
  IF ~is_receipt(text, env.valid)
  THEN [is_valid |-> FALSE, receipt_date |-> NoDate, message |-> MsgNotReceipt,
        calls |-> <<"is_receipt">>]
  ELSE [is_valid |-> TRUE,
        receipt_date |-> extract_date_from_receipt(text, env.date),
        message |-> MsgOk,
        calls |-> <<"is_receipt", "extract_date_from_receipt">>]

\* analyze_receipt(text): (is_valid, receipt_date, message), and the
\* classification calls made, in order.
analyze_receipt(text, env) ==
  IF ~is_receipt(text, env.valid)
  THEN [is_valid |-> FALSE, receipt_date |-> NoDate, message |-> MsgNotReceipt,
        calls |-> <<"is_receipt">>]
  ELSE Only({IF receipt_date = NoDate
             THEN [is_valid |-> FALSE, receipt_date |-> NoDate, message |-> MsgNoDate,
                   calls |-> <<"is_receipt", "extract_date_from_receipt">>]
             ELSE [is_valid |-> TRUE, receipt_date |-> receipt_date, message |-> MsgOk,
                   calls |-> <<"is_receipt", "extract_date_from_receipt">>] :
             receipt_date \in {extract_date_from_receipt(text, env.date)}})

\* ------------------------------------------------------------ archiving
\* save_receipt_file refusing a document of which an archived copy exists.
save_receipt_file_no_duplicate(original_file_path, user_id, env, fs, clk) ==
  LET moscow_time == clk
      new_file_path == ReceiptFile(user_id, moscow_time, original_file_path.ext)
      copied == Write(fs, new_file_path, DataOf(fs, original_file_path))
      seen == \E f \in fs : /\ f.path.kind = "receipt"
                            /\ f.data = DataOf(fs, original_file_path)
  IN  CASE seen ->
             [path |-> NoPath, expiration_time |-> NoTs, files |-> fs]
        [] env.copy = "ok" ->
             [path |-> new_file_path,
              expiration_time |-> AddHours(moscow_time, 24),
              files |-> copied]
        [] env.copy = "error_after_write" ->
             [path |-> NoPath, expiration_time |-> NoTs, files |-> copied]
        [] OTHER ->
             [path |-> NoPath, expiration_time |-> NoTs, files |-> fs]

\* save_receipt_file returning the path although shutil.copy2 raised.
save_receipt_file_path_on_error(original_file_path, user_id, env, fs, clk) ==
  LET moscow_time == clk
      new_file_path == ReceiptFile(user_id, moscow_time, original_file_path.ext)
      copied == Write(fs, new_file_path, DataOf(fs, original_file_path))
  IN  [path |-> new_file_path,
       expiration_time |-> AddHours(moscow_time, 24),
       files |-> IF env.copy = "error" THEN fs ELSE copied]

\* save_receipt_file: (new_file_path, expiration_time), and the file system
\* after it.  shutil.copy2 copies the bytes and then the metadata: it can
\* fail before the archived file exists, or after.
save_receipt_file(original_file_path, user_id, env, fs, clk) ==
  LET moscow_time == clk
      new_file_path == ReceiptFile(user_id, moscow_time, original_file_path.ext)
      copied == Write(fs, new_file_path, DataOf(fs, original_file_path))
  IN  CASE env.copy = "ok" ->
             [path |-> new_file_path,
              expiration_time |-> AddHours(moscow_time, 24),
              files |-> copied]
        [] env.copy = "error_after_write" ->
             [path |-> NoPath, expiration_time |-> NoTs, files |-> copied]
        [] OTHER ->
             [path |-> NoPath, expiration_time |-> NoTs, files |-> fs]

\* ------------------------------------------------------------ process_image
\* The environment of one run of process_image, one answer per external call:
\*   pdf      convert_from_path: "ok", "no_pages", "poppler" (an exception
\*            whose text names poppler), "error" (any other exception)
\*   open     Image.open / save of the converted page: "ok", "error"
\*   ocr_rus  pytesseract.image_to_string(img, lang='rus')
\*   ocr_gen  pytesseract.image_to_string(img)
\*   valid    the chat completion of is_receipt
\*   date     the chat completion of extract_date_from_receipt
\*   copy     shutil.copy2: "ok", "error", "error_after_write"
\*   rm       the removals of the finally block: "ok", "error"
Outcome(success, receipt_date, receipt_path, message) ==
  [success |-> success, receipt_date |-> receipt_date,
   receipt_path |-> receipt_path, message |-> message]

Rejected(message) == Outcome(FALSE, NoDate, NoPath, message)

\* No outcome: the exception e leaves process_image and reaches the caller.
Propagated(e) == [raised |-> e]

Run(out, fs, calls) == [out |-> out, files |-> fs, calls |-> calls]

\* open_image without the test of line 211 for "poppler" in the text of
\* the exception.
open_image_no_poppler_test(image_path, env, fs) ==
  IF image_path.ext = ".pdf"
  THEN LET temp_dir == TempDir(image_path)
           temp_img_path == ConvertedImg(image_path)
           fs1 == Write(fs, temp_dir, 0)
           fs2 == Write(fs1, temp_img_path, DataOf(fs, image_path))
           c1 == <<"mkdtemp", "convert_from_path">>
       IN  CASE env.pdf = "no_pages" ->
                  [done |-> TRUE, run |-> Run(Rejected(MsgPdfNoPages), fs1, c1)]
             [] env.pdf \in {"poppler", "error"} ->
                  [done |-> TRUE, run |-> Run(Rejected(MsgPdfError), fs1, c1)]
             [] OTHER ->
                  IF env.open = "error"
                  THEN [done |-> TRUE,
                        run |-> Run(Rejected(MsgPdfError), fs2, c1 \o <<"Image.open">>)]
                  ELSE [done |-> FALSE,
                        run |-> Run(Rejected(<<>>), fs2, c1 \o <<"Image.open">>)]
  ELSE IF env.open = "error"
       THEN [done |-> TRUE, run |-> Run(Rejected(MsgFileError), fs, <<"Image.open">>)]
       ELSE [done |-> FALSE, run |-> Run(Rejected(<<>>), fs, <<"Image.open">>)]

\* Lines 178-218: the image is opened, from the PDF's first page or from the
\* file itself.  done: the function returns here.
open_image(image_path, env, fs) ==
  IF image_path.ext = ".pdf"
  THEN LET temp_dir == TempDir(image_path)
           temp_img_path == ConvertedImg(image_path)
           fs1 == Write(fs, temp_dir, 0)
           fs2 == Write(fs1, temp_img_path, DataOf(fs, image_path))
           c1 == <<"mkdtemp", "convert_from_path">>
       IN  CASE env.pdf = "no_pages" ->
                  [done |-> TRUE, run |-> Run(Rejected(MsgPdfNoPages), fs1, c1)]
             [] env.pdf = "poppler" ->
                  [done |-> TRUE, run |-> Run(Rejected(MsgPoppler), fs1, c1)]
             [] env.pdf = "error" ->
                  [done |-> TRUE, run |-> Run(Rejected(MsgPdfError), fs1, c1)]
             [] OTHER ->
                  IF env.open = "error"
                  THEN [done |-> TRUE,
                        run |-> Run(Rejected(MsgPdfError), fs2, c1 \o <<"Image.open">>)]
                  ELSE [done |-> FALSE,
                        run |-> Run(Rejected(<<>>), fs2, c1 \o <<"Image.open">>)]
  ELSE IF env.open = "error"
       THEN [done |-> TRUE, run |-> Run(Rejected(MsgFileError), fs, <<"Image.open">>)]
       ELSE [done |-> FALSE, run |-> Run(Rejected(<<>>), fs, <<"Image.open">>)]

\* extract_text making the generic attempt whatever the first one gave.
extract_text_always_generic(env) ==
  IF env.ocr_rus.raise
  THEN [raise |-> TRUE, text |-> <<>>, calls |-> <<"ocr_rus">>]
  ELSE [raise |-> env.ocr_gen.raise,
        text |-> IF strip(env.ocr_rus.val) # <<>> THEN env.ocr_rus.val
                 ELSE env.ocr_gen.val,
        calls |-> <<"ocr_rus", "ocr_generic">>]

\* Lines 225-229: OCR with the Russian locale, then without a language when
\* the text is empty.  An exception of either call leaves the try block.
extract_text(env) ==
  IF env.ocr_rus.raise
  THEN [raise |-> TRUE, text |-> <<>>, calls |-> <<"ocr_rus">>]
  ELSE IF strip(env.ocr_rus.val) # <<>>
       THEN [raise |-> FALSE, text |-> env.ocr_rus.val, calls |-> <<"ocr_rus">>]
       ELSE [raise |-> env.ocr_gen.raise, text |-> env.ocr_gen.val,
             calls |-> <<"ocr_rus", "ocr_generic">>]

\* check_and_save archiving the file before the text is analysed.
check_and_save_archive_first(image_path, user_id, env, fs, clk, ocr) ==
  Only({Only({IF ~a.is_valid
              THEN Run(Rejected(a.message), saved.files,
                       ocr.calls \o <<"copy2">> \o a.calls)
              ELSE IF saved.path = NoPath
              THEN Run(Rejected(MsgSaveError), saved.files,
                       ocr.calls \o <<"copy2">> \o a.calls)
              ELSE Run(Outcome(TRUE, a.receipt_date, saved.path, MsgOk),
                       saved.files, ocr.calls \o <<"copy2">> \o a.calls) :
              a \in {analyze_receipt(ocr.text, env)}}) :
        saved \in {save_receipt_file(image_path, user_id, env, fs, clk)}})

\* check_and_save without the test of line 244 for a missing path.
check_and_save_no_path_check(image_path, user_id, env, fs, clk, ocr) ==
  Only({IF ~a.is_valid
        THEN Run(Rejected(a.message), fs, ocr.calls \o a.calls)
        ELSE Only({Run(Outcome(TRUE, a.receipt_date, saved.path, MsgOk),
                       saved.files, ocr.calls \o a.calls \o <<"copy2">>) :
                   saved \in {save_receipt_file(image_path, user_id, env, fs, clk)}}) :
        a \in {analyze_receipt(ocr.text, env)}})

\* Lines 237-247: the text is analysed and, when valid, the file archived.
check_and_save(image_path, user_id, env, fs, clk, ocr) ==
  Only({IF ~a.is_valid
        THEN Run(Rejected(a.message), fs, ocr.calls \o a.calls)
        ELSE Only({IF saved.path = NoPath
                   THEN Run(Rejected(MsgSaveError), saved.files,
                            ocr.calls \o a.calls \o <<"copy2">>)
                   ELSE Run(Outcome(TRUE, a.receipt_date, saved.path, MsgOk),
                            saved.files, ocr.calls \o a.calls \o <<"copy2">>) :
                   saved \in {save_receipt_file(image_path, user_id, env, fs, clk)}}) :
        a \in {analyze_receipt(ocr.text, env)}})

\* recognize_and_check without the test of line 234 for an empty text.
recognize_and_check_no_empty_check(image_path, user_id, env, fs, clk) ==
  Only({IF ocr.raise
        THEN Run(Rejected(MsgFileError), fs, ocr.calls)
        ELSE check_and_save(image_path, user_id, env, fs, clk, ocr) :
        ocr \in {extract_text(env)}})

\* recognize_and_check without the handler of lines 249-251: an exception
\* of an OCR call leaves process_image.
recognize_and_check_no_except(image_path, user_id, env, fs, clk) ==
  Only({IF ocr.raise
        THEN Run(Propagated(ErrText), fs, ocr.calls)
        ELSE IF strip(ocr.text) = <<>>
        THEN Run(Rejected(MsgNoText), fs, ocr.calls)
        ELSE check_and_save(image_path, user_id, env, fs, clk, ocr) :
        ocr \in {extract_text(env)}})

\* Lines 225-247: from OCR to the return value.
recognize_and_check(image_path, user_id, env, fs, clk) ==
  Only({IF ocr.raise
        THEN Run(Rejected(MsgFileError), fs, ocr.calls)
        ELSE IF strip(ocr.text) = <<>>
        THEN Run(Rejected(MsgNoText), fs, ocr.calls)
        ELSE check_and_save(image_path, user_id, env, fs, clk, ocr) :
        ocr \in {extract_text(env)}})

\* cleanup without the rmtree of line 260.
cleanup_image_only(image_path, env, fs) ==
  IF env.rm = "ok" THEN Remove(fs, ConvertedImg(image_path)) ELSE fs

\* Lines 253-263, the finally block: the converted image and the temporary
\* directory are removed; an exception of a removal is logged and dropped.
\* rm = "error": the first removal attempted raises.
cleanup(image_path, env, fs) ==
  LET temp_dir == TempDir(image_path)
      temp_img_path == ConvertedImg(image_path)
  IN  IF ~Exists(fs, temp_dir) THEN fs
      ELSE IF env.rm = "ok" THEN Remove(Remove(fs, temp_img_path), temp_dir)
      ELSE fs

\* process_image(image_path, user_id): the outcome, the file system after
\* the call and the external calls made, in order.
try_body(image_path, user_id, env, fs, clk) ==
  IF ~Exists(fs, image_path)
  THEN Run(Rejected(MsgFileNotFound), fs, <<>>)
  ELSE Only({IF img.done THEN img.run
             ELSE Only({Run(r.out, r.files, img.run.calls \o r.calls) :
                        r \in {recognize_and_check(image_path, user_id, env,
                                                   img.run.files, clk)}}) :
             img \in {open_image(image_path, env, fs)}})

process_image(image_path, user_id, env, fs, clk) ==
  Only({Run(body.out,
            cleanup(image_path, env, body.files),
            IF Exists(body.files, TempDir(image_path))
            THEN body.calls \o <<"rmtree">>
            ELSE body.calls) :
        body \in {try_body(image_path, user_id, env, fs, clk)}})

\* ------------------------------------------------------------ environments
ReceiptText == <<"r", "e", "c", "e", "i", "p", "t">>

\* OCR output: nothing, white space only, or a text.
OcrTexts == {<<>>, <<" ", "\n">>, ReceiptText}

OcrResponses == {Raises} \cup {Returns(t) : t \in OcrTexts}

\* Answers of the validity check: true|ok, true, TRUE|ok, false|no, no.
ValidAnswers ==
  {TrueStr \o <<"|", "o", "k">>,
   TrueStr,
   <<"T", "R", "U", "E", "|", "o", "k">>,
   <<"f", "a", "l", "s", "e", "|", "n", "o">>,
   <<"n", "o">>}

ValidResponses == {Raises} \cup {Returns(a) : a \in ValidAnswers}

FirstDate == [d |-> 1, m |-> 3, y |-> 2025]

\* Answers of the date extraction: each date of the clock as DD.MM.YYYY, the
\* first one also as 1.3.2025 and with white space around it, not_found,
\* 31.02.2025 and 2025-03-01.
DateAnswers ==
  {FormatDate(d) : d \in Dates} \cup
  {<<"1", ".", "3", ".", "2", "0", "2", "5">>,
   <<" ">> \o FormatDate(FirstDate) \o <<"\n">>,
   NotFoundStr,
   <<"3", "1", ".", "0", "2", ".", "2", "0", "2", "5">>,
   <<"2", "0", "2", "5", "-", "0", "3", "-", "0", "1">>}

DateResponses == {Raises} \cup {Returns(a) : a \in DateAnswers}

NoEnv ==
  [pdf |-> "n/a", open |-> "n/a", ocr_rus |-> Unused, ocr_gen |-> Unused,
   valid |-> Unused, date |-> Unused, copy |-> "n/a", rm |-> "n/a"]

\* The external call each field of an environment answers.
CallOf ==
  [pdf |-> "convert_from_path", open |-> "Image.open", ocr_rus |-> "ocr_rus",
   ocr_gen |-> "ocr_generic", valid |-> "is_receipt",
   date |-> "extract_date_from_receipt", copy |-> "copy2", rm |-> "rmtree"]

\* On the fields F, env answers exactly the calls the run makes.
Answers(env, calls, F) ==
  \A f \in F : (env[f] # NoEnv[f]) <=> (\E i \in 1..Len(calls) : calls[i] = CallOf[f])

\* The environments of a run on an existing file with extension ext, built
\* stage by stage: a later call never changes whether an earlier one is made.
EnvsOf(ext) ==
  LET p == TempFile(1, 1, ext)
      fs == {[path |-> p, data |-> 1]}
      calls(env) ==
        process_image(p, 1, env, fs, [date |-> FirstDate, tod |-> 0]).calls
      s1 == {env \in {[NoEnv EXCEPT !.pdf = a, !.open = b, !.rm = c] :
                        a \in {"n/a", "ok", "no_pages", "poppler", "error"},
                        b \in {"n/a", "ok", "error"},
                        c \in {"n/a", "ok", "error"}} :
               Answers(env, calls(env), {"pdf", "open", "rm"})}
      s2 == {env \in {[e EXCEPT !.ocr_rus = a, !.ocr_gen = b] :
                        e \in s1,
                        a \in {Unused} \cup OcrResponses,
                        b \in {Unused} \cup OcrResponses} :
               Answers(env, calls(env), {"ocr_rus", "ocr_gen"})}
      s3 == {env \in {[e EXCEPT !.valid = a, !.date = b] :
                        e \in s2,
                        a \in {Unused} \cup ValidResponses,
                        b \in {Unused} \cup DateResponses} :
               Answers(env, calls(env), {"valid", "date"})}
  IN  {env \in {[e EXCEPT !.copy = a] :
                  e \in s3, a \in {"n/a", "ok", "error", "error_after_write"}} :
         Answers(env, calls(env), {"copy"})}

EnvsJpg == EnvsOf(".jpg")

EnvsPdf == EnvsOf(".pdf")

\* The environments of a run of process_image on image_path.
Envs(image_path, fs) ==
  IF ~Exists(fs, image_path) THEN {NoEnv}
  ELSE IF image_path.ext = ".pdf" THEN EnvsPdf ELSE EnvsJpg


\* ------------------------------------------------------------ state
VARIABLES
  files,     \* the file system
  now,       \* the Moscow clock
  last,      \* the latest run of process_image: its arguments, the answers
             \* of the external calls it made, and what it returned
  response,  \* SpecIsReceipt: the chat completion given to is_receipt
  verdict,   \* SpecIsReceipt: what is_receipt made of it
  fsm,       \* the FSM state of each user
  data,      \* the FSM data of each user
  orders,    \* the rows of the orders table
  sub,       \* the runs of process_payment_receipt, by message id
  next_msg,  \* the id of the next receipt message
  order_created, \* the date on which each user was sent the payment
                 \* instructions of the current checkout (NoDate: none)
  handled,   \* SpecReceiptBot: the latest run of a handler of the
             \* receipt_processor bots that has finished
  notified,  \* SpecNotify: the latest call of send_email or of
             \* send_email_notification, its inputs and what came of it
  admin,     \* SpecAdmin: the products table, the new_product_* keys of the
             \* FSM data, and the latest message update fed to the dispatcher
  called     \* SpecCart: the latest run of a cart or checkout handler and
             \* its input

pipeVars == <<files, now, last>>

parseVars == <<response, verdict>>

shopVars == <<fsm, data, orders, sub, next_msg, order_created>>

vars == <<files, now, last, response, verdict,
          fsm, data, orders, sub, next_msg, order_created, handled,
          notified, admin, called>>

Clock == [date : Dates, tod : Tods]

NoRun ==
  [n |-> 0, image_path |-> NoPath, user_id |-> 0, env |-> NoEnv, clk |-> NoTs,
   out |-> Rejected(<<>>), calls |-> <<>>, before |-> {}, after |-> {}]

\* The record of the n-th run.
RunRecord(n, image_path, user_id, env, fs, clk, r) ==
  [n |-> n, image_path |-> image_path, user_id |-> user_id, env |-> env,
   clk |-> clk, out |-> r.out, calls |-> r.calls, before |-> fs, after |-> r.files]

NoVerdict == [parsed |-> FALSE, is_valid |-> FALSE, reason |-> NoReason]

Users == {1}

\* FSM data: a key that is absent holds the default its readers give it.
NoData ==
  [cart |-> {}, total_sum |-> 0, customer_name |-> <<>>, phone |-> <<>>,
   customer_email |-> <<>>, delivery_address |-> <<>>]

\* process_payment_receipt not running for a message.
IdleSub ==
  [pc |-> "idle", user |-> 0, ext |-> "", temp_file |-> NoPath,
   current_date |-> NoDate, run |-> Rejected(<<>>), result |-> "none",
   reply |-> <<>>]

\* No handler of the receipt_processor bots has run.
NoHandled ==
  [handler |-> "none", user |-> 0, temp_file |-> NoPath, written |-> FALSE,
   reply |-> <<>>]

\* None of a Python optional, or the value.
None == [some |-> FALSE, val |-> <<>>]

Some(v) == [some |-> TRUE, val |-> v]

\* No notification call has been made.
NoNotified ==
  [op |-> "none", password |-> None, text_content |-> None, has_order |-> FALSE,
   html_content |-> None, smtp |-> "n/a", raise |-> FALSE, returned |-> "n/a",
   parts |-> <<>>]

\* initialize_test_products: the products of an empty catalogue.
TestProducts ==
  {[id |-> 1, name |-> "face cream", price |-> 2500, category |-> "cosmetics",
    available |-> TRUE],
   [id |-> 2, name |-> "hair mask", price |-> 1800, category |-> "cosmetics",
    available |-> TRUE],
   [id |-> 3, name |-> "hair dryer", price |-> 5900, category |-> "electronics",
    available |-> TRUE],
   [id |-> 4, name |-> "face massager", price |-> 3200, category |-> "electronics",
    available |-> TRUE]}

\* float('nan'), a float that is neither below, above nor equal to any
\* float; the other floats of the model are integers.
NaN == -1

FloatLe(x, y) == x # NaN /\ y # NaN /\ x <= y

FloatGt(x, y) == x # NaN /\ y # NaN /\ x > y


FloatAdd(x, y) == IF x = NaN \/ y = NaN THEN NaN ELSE x + y

FloatMul(x, y) == IF x = NaN \/ y = NaN THEN NaN ELSE x * y

\* No new_product_* key and no editing_product_id in the FSM data.
NoNewProduct ==
  [new_product_name |-> None, new_product_description |-> None,
   new_product_price |-> None, new_product_category |-> None,
   editing_product_id |-> None]

\* No update has been fed to the dispatcher.
NoAdmin ==
  [products |-> <<>>, catalogue |-> TestProducts,
   new_product |-> [u \in Users |-> NoNewProduct],
   text |-> "", handler |-> "none", reply |-> "", inserted |-> FALSE,
   shown |-> 0, script |-> 0, authorized |-> [u \in Users |-> FALSE],
   auth_code |-> [u \in Users |-> None]]

\* A message without a text (a photo, a sticker).
NoText == [none |-> TRUE, val |-> <<>>]

\* No cart or checkout handler has run.
NoCalled == [op |-> "none", action |-> "", product_id |-> 0, text |-> NoText]

\* The runs are not recorded: in every specification but SpecCart.
Unrecorded == [NoCalled EXCEPT !.op = "unrecorded"]

\* The run of the handler op on this input, where runs are recorded.
Call(op, action, product_id, text) ==
  IF called = Unrecorded THEN called
  ELSE [op |-> op, action |-> action, product_id |-> product_id, text |-> text]

\* Nobody has used the shop.
NoShop ==
  /\ fsm = [u \in Users |-> "none"]
  /\ data = [u \in Users |-> NoData]
  /\ orders = {}
  /\ sub = [m \in 1..MaxMsgs |-> IdleSub]
  /\ next_msg = 1
  /\ order_created = [u \in Users |-> NoDate]
  /\ handled = NoHandled
  /\ notified = NoNotified
  /\ admin = NoAdmin

\* The clock advances by a second, or to the next day.
Tick ==
  /\ \/ /\ now.tod + 1 \in Tods
        /\ now' = [now EXCEPT !.tod = now.tod + 1]
     \/ /\ NextDay(now.date) \in Dates
        /\ now' = [date |-> NextDay(now.date), tod |-> 0]
  /\ UNCHANGED <<files, last, parseVars, admin, called, handled, notified, shopVars>>

\* ------------------------------------------------------------ shop: cart and checkout
\* The products a user adds to the cart: one of each category.
PickedIds == {1, 3}

\* A cart is a set of items, one per product id.
InCart(cart, product_id) == \E item \in cart : item.id = product_id

RECURSIVE CartSum(_)
CartSum(cart) ==
  IF cart = {} THEN 0
  ELSE LET item == CHOOSE i \in cart : TRUE
       IN  FloatAdd(FloatMul(item.price, item.quantity), CartSum(cart \ {item}))

RECURSIVE CartCount(_)
CartCount(cart) ==
  IF cart = {} THEN 0
  ELSE LET item == CHOOSE i \in cart : TRUE
       IN  item.quantity + CartCount(cart \ {item})

\* Lines 514-521: the quantity of the item grows by one, or the item enters
\* the cart with the product's name and price.
AddItem(cart, product) ==
  IF InCart(cart, product.id)
  THEN {IF item.id = product.id THEN [item EXCEPT !.quantity = @ + 1] ELSE item :
        item \in cart}
  ELSE cart \cup {[id |-> product.id, name |-> product.name,
                   price |-> product.price, quantity |-> 1]}

\* A message with a text, or without one (a photo, a sticker).
Texts(S) == {[none |-> FALSE, val |-> t] : t \in S} \cup {[none |-> TRUE, val |-> <<>>]}

NameTexts == {<<" ", "A", " ">>, <<"A", "n", "n">>}

PhoneTexts ==
  {<<"+", "7", "9", "0", "0", "1", "2", "3", "4", "5", "6", "7">>,
   <<"1", "2", "3", "4", "5">>,
   <<"+", "7", "9", "0", "0", "1", "2", "3", "4", "5", "6", "x">>}

EmailTexts ==
  {<<"A", "@", "b", ".", "r", "u">>,
   <<"a", "b", ".", "r", "u">>,
   <<"a", "@", "b">>}

AddressTexts ==
  {<<"M", "o", "s", "c", "o", "w", ",", " ", "A", "r", "b", "a", "t", " ", "1">>,
   <<"M", "o", "s", "c", "o", "w">>}

\* state.clear(): the FSM state and the FSM data of the user are dropped.
StateClear(u) ==
  /\ fsm' = [fsm EXCEPT ![u] = "none"]
  /\ data' = [data EXCEPT ![u] = NoData]
  /\ order_created' = [order_created EXCEPT ![u] = NoDate]

\* process_add_to_cart_callback, in any FSM state, while the cart holds
\* fewer than max_items items.
add_to_cart(u, max_items) ==
  /\ CartCount(data[u].cart) < max_items
  /\ \E product_id \in PickedIds :
     \E product \in {p \in admin.catalogue : p.id = product_id} :
       /\ data' = [data EXCEPT ![u].cart = AddItem(@, product)]
       /\ called' = Call("process_add_to_cart_callback", "add", product_id, NoText)
  /\ UNCHANGED <<pipeVars, parseVars, admin, handled, notified, fsm, orders, sub, next_msg, order_created>>

process_add_to_cart_callback(u) == add_to_cart(u, MaxItems)

\* process_cart_checkout, reached from the cart_checkout callback in any
\* FSM state; with an empty cart it only answers.
process_cart_checkout(u) ==
  /\ IF data[u].cart = {}
     THEN UNCHANGED <<fsm, data, order_created>>
     ELSE /\ data' = [data EXCEPT ![u].total_sum = CartSum(data[u].cart)]
          /\ fsm' = [fsm EXCEPT ![u] = "WAITING_FOR_CUSTOMER_NAME"]
          /\ order_created' = [order_created EXCEPT ![u] = NoDate]
  /\ called' = Call("process_cart_checkout", "checkout", 0, NoText)
  /\ UNCHANGED <<pipeVars, parseVars, admin, handled, notified, orders, sub, next_msg>>

\* process_customer_name storing the name before it looks at its length.
process_customer_name_store_first(u) ==
  /\ fsm[u] = "WAITING_FOR_CUSTOMER_NAME"
  /\ \E text \in Texts(NameTexts) :
       /\ called' = Call("process_customer_name", "", 0, text)
       /\ IF text.none THEN StateClear(u)
          ELSE LET customer_name == strip(text.val)
               IN  /\ data' = [data EXCEPT ![u].customer_name = customer_name]
                   /\ fsm' = IF Len(customer_name) < 2 THEN fsm
                             ELSE [fsm EXCEPT ![u] = "WAITING_FOR_CUSTOMER_PHONE"]
                   /\ UNCHANGED order_created
  /\ UNCHANGED <<pipeVars, parseVars, admin, handled, notified, orders, sub, next_msg>>

process_customer_name(u) ==
  /\ fsm[u] = "WAITING_FOR_CUSTOMER_NAME"
  /\ \E text \in Texts(NameTexts) :
       /\ called' = Call("process_customer_name", "", 0, text)
       /\ IF text.none THEN StateClear(u)
          ELSE LET customer_name == strip(text.val)
               IN  IF Len(customer_name) < 2
                   THEN UNCHANGED <<fsm, data, order_created>>
                   ELSE /\ data' = [data EXCEPT ![u].customer_name = customer_name]
                        /\ fsm' = [fsm EXCEPT ![u] = "WAITING_FOR_CUSTOMER_PHONE"]
                        /\ UNCHANGED order_created
  /\ UNCHANGED <<pipeVars, parseVars, admin, handled, notified, orders, sub, next_msg>>

process_customer_phone(u) ==
  /\ fsm[u] = "WAITING_FOR_CUSTOMER_PHONE"
  /\ \E text \in Texts(PhoneTexts) :
       /\ called' = Call("process_customer_phone", "", 0, text)
       /\ IF text.none THEN StateClear(u)
          ELSE LET phone == strip(text.val)
               IN  IF ~isdigit(replace(phone, "+", <<>>)) \/ Len(phone) < 10
                   THEN UNCHANGED <<fsm, data, order_created>>
                   ELSE /\ data' = [data EXCEPT ![u].phone = phone]
                        /\ fsm' = [fsm EXCEPT ![u] = "WAITING_FOR_CUSTOMER_EMAIL"]
                        /\ UNCHANGED order_created
  /\ UNCHANGED <<pipeVars, parseVars, admin, handled, notified, orders, sub, next_msg>>

\* The handler of an exception here answers and keeps the FSM state.
process_customer_email(u) ==
  /\ fsm[u] = "WAITING_FOR_CUSTOMER_EMAIL"
  /\ \E text \in Texts(EmailTexts) :
       /\ called' = Call("process_customer_email", "", 0, text)
       /\ IF text.none THEN UNCHANGED <<fsm, data, order_created>>
          ELSE LET email == lower(strip(text.val))
               IN  IF ~Contains(email, "@") \/ ~Contains(email, ".") \/ Len(email) < 5
                   THEN UNCHANGED <<fsm, data, order_created>>
                   ELSE /\ data' = [data EXCEPT ![u].customer_email = email]
                        /\ fsm' = [fsm EXCEPT ![u] = "WAITING_FOR_DELIVERY_ADDRESS"]
                        /\ UNCHANGED order_created
  /\ UNCHANGED <<pipeVars, parseVars, admin, handled, notified, orders, sub, next_msg>>

\* The payment instructions are sent on the day now.date.
process_delivery_address(u) ==
  /\ fsm[u] = "WAITING_FOR_DELIVERY_ADDRESS"
  /\ \E text \in Texts(AddressTexts) :
       /\ called' = Call("process_delivery_address", "", 0, text)
       /\ IF text.none THEN StateClear(u)
          ELSE LET address == strip(text.val)
               IN  IF Len(address) < 10
                   THEN UNCHANGED <<fsm, data, order_created>>
                   ELSE /\ data' = [data EXCEPT ![u].delivery_address = address]
                        /\ fsm' = [fsm EXCEPT ![u] = "WAITING_FOR_RECEIPT"]
                        /\ order_created' = [order_created EXCEPT ![u] = now.date]
  /\ UNCHANGED <<pipeVars, parseVars, admin, handled, notified, orders, sub, next_msg>>

\* ------------------------------------------------------------ shop: process_payment_receipt
\* The environments of process_image in the shop flow, one for each way
\* through it: the file does not open, no text, not a receipt, no date, a
\* date of the clock with the copy made or not; for a PDF also no page, and
\* the removals of the finally block succeed.
TextRead ==
  [NoEnv EXCEPT !.open = "ok", !.ocr_rus = Returns(ReceiptText)]

IsReceiptEnv ==
  [TextRead EXCEPT !.valid = Returns(TrueStr \o <<"|", "o", "k">>)]

ShopEnvsJpg ==
  {[NoEnv EXCEPT !.open = "error"],
   [NoEnv EXCEPT !.open = "ok", !.ocr_rus = Returns(<<>>), !.ocr_gen = Returns(<<>>)],
   [TextRead EXCEPT !.valid = Returns(<<"f", "a", "l", "s", "e", "|", "n", "o">>)],
   [IsReceiptEnv EXCEPT !.date = Returns(NotFoundStr)]} \cup
  {[IsReceiptEnv EXCEPT !.date = Returns(FormatDate(d)), !.copy = c] :
     d \in Dates, c \in {"ok", "error"}}

ShopEnvsPdf ==
  {[NoEnv EXCEPT !.pdf = "no_pages", !.rm = "ok"]} \cup
  {[env EXCEPT !.pdf = "ok", !.rm = "ok"] : env \in ShopEnvsJpg}

ShopEnvs(ext) == IF ext = ".pdf" THEN ShopEnvsPdf ELSE ShopEnvsJpg

\* Lines 287-363: what the handler makes of the outcome of process_image.
\* send_email_notification of this module does nothing.
check_receipt(out, current_date) ==
  IF ~out.success
  THEN [result |-> "rejected", reply |-> out.message]
  ELSE IF out.receipt_date # current_date
  THEN [result |-> "rejected", reply |-> MsgDateMismatch]
  ELSE [result |-> "accepted", reply |-> MsgOrderOk]

\* Lines 248-265: a photo or a PDF arrives in WAITING_FOR_RECEIPT; get_file
\* and the "checking" message succeed, or one raises into the handler of
\* line 379.
process_payment_receipt_get_file(u) ==
  /\ fsm[u] = "WAITING_FOR_RECEIPT"
  /\ next_msg <= MaxMsgs
  /\ next_msg' = next_msg + 1
  /\ \E ext \in {".jpg", ".pdf"}, get_file \in {"ok", "error"} :
       IF get_file = "error"
       THEN /\ StateClear(u)
            /\ UNCHANGED sub
       ELSE /\ sub' = [sub EXCEPT ![next_msg] =
                         [IdleSub EXCEPT !.pc = "download", !.user = u, !.ext = ext]]
            /\ UNCHANGED <<fsm, data, order_created>>
  /\ UNCHANGED <<pipeVars, parseVars, admin, called, handled, notified, orders>>

\* Lines 267-371: the download, the temporary file, process_image, the date
\* check, the answer and the FSM transition; an exception of the download
\* is answered by the handler of line 366.
process_payment_receipt_check(m) ==
  /\ sub[m].pc = "download"
  /\ \E download \in {"ok", "error"} :
       IF download = "error"
       THEN /\ sub' = [sub EXCEPT ![m] = [@ EXCEPT !.pc = "finally",
                                            !.result = "error",
                                            !.reply = MsgCheckError]]
            /\ UNCHANGED <<files, fsm>>
       ELSE \E temp_file \in {TempFile(sub[m].user, m, sub[m].ext)} :
            \E env \in ShopEnvs(sub[m].ext) :
            \E r \in {process_image(temp_file, sub[m].user, env,
                                    Write(files, temp_file, m), now)} :
            \E c \in {check_receipt(r.out, now.date)} :
              /\ files' = r.files
              /\ sub' = [sub EXCEPT ![m] = [@ EXCEPT !.pc = "finally",
                                              !.temp_file = temp_file,
                                              !.current_date = now.date,
                                              !.run = r.out,
                                              !.result = c.result,
                                              !.reply = c.reply]]
              /\ fsm' = IF c.result = "accepted"
                        THEN [fsm EXCEPT ![sub[m].user] = "ORDER_PAID"]
                        ELSE fsm
  /\ UNCHANGED <<now, last, parseVars, admin, called, handled, notified, data, orders, next_msg, order_created>>

\* Lines 372-385: the temporary file is removed and the "checking" message
\* deleted; an exception of the deletion reaches the handler of line 379.
process_payment_receipt_finally(m) ==
  /\ sub[m].pc = "finally"
  /\ files' = IF sub[m].temp_file # NoPath /\ Exists(files, sub[m].temp_file)
              THEN Remove(files, sub[m].temp_file)
              ELSE files
  /\ sub' = [sub EXCEPT ![m] = IdleSub]
  /\ \E delete \in {"ok", "error"} :
       IF delete = "error"
       THEN StateClear(sub[m].user)
       ELSE UNCHANGED <<fsm, data, order_created>>
  /\ UNCHANGED <<now, last, parseVars, admin, called, handled, notified, orders, next_msg>>

\* ------------------------------------------------------------ Spec
Init ==
  /\ files = {}
  /\ now = [date |-> FirstDate, tod |-> 0]
  /\ last = NoRun
  /\ response = Unused
  /\ verdict = NoVerdict
  /\ NoShop
  /\ called = Unrecorded

Next ==
  \/ \E u \in Users : process_add_to_cart_callback(u)
  \/ \E u \in Users : process_cart_checkout(u)
  \/ \E u \in Users : process_customer_name(u)
  \/ \E u \in Users : process_customer_phone(u)
  \/ \E u \in Users : process_customer_email(u)
  \/ \E u \in Users : process_delivery_address(u)
  \/ \E u \in Users : process_payment_receipt_get_file(u)
  \/ \E m \in 1..MaxMsgs : process_payment_receipt_check(m)
  \/ \E m \in 1..MaxMsgs : process_payment_receipt_finally(m)
  \/ Tick

Spec == Init /\ [][Next]_vars

\* ------------------------------------------------------------ SpecPipeline
\* process_image called once, on a document that is on disk or is not, at
\* any time of the clock.
InputFiles ==
  {[path |-> TempFile(1, 1, ".jpg"), data |-> 1],
   [path |-> TempFile(1, 2, ".pdf"), data |-> 2]}

InitPipeline ==
  /\ files \in SUBSET InputFiles
  /\ now \in Clock
  /\ last = NoRun
  /\ response = Unused
  /\ verdict = NoVerdict
  /\ NoShop
  /\ called = Unrecorded

CallProcessImage ==
  /\ last.n = 0
  /\ \E f \in InputFiles :
       \E env \in Envs(f.path, files) :
         \E r \in {process_image(f.path, f.path.user, env, files, now)} :
           /\ files' = r.files
           /\ last' = RunRecord(last.n + 1, f.path, f.path.user, env, files, now, r)
  /\ UNCHANGED <<now, parseVars, admin, called, handled, notified, shopVars>>

NextPipeline == CallProcessImage \/ Tick

SpecPipeline == InitPipeline /\ [][NextPipeline]_vars

\* ------------------------------------------------------------ SpecResubmit
\* One user sends a document to process_payment_receipt and, when it was
\* rejected, sends the same bytes again in a new message.  The environments
\* are those of the shop flow, and a removal or a copy that fails.
ResubmitEnvs(ext) ==
  IF ext = ".pdf"
  THEN ShopEnvsPdf \cup {[env EXCEPT !.rm = "error"] : env \in ShopEnvsPdf}
  ELSE ShopEnvsJpg \cup
       {[IsReceiptEnv EXCEPT !.date = Returns(FormatDate(d)),
                             !.copy = "error_after_write"] : d \in Dates}

\* Lines 267-377 for message message_id of user 1: the temporary file is
\* written, process_image runs, and the finally block removes the file.
SubmitDocument(message_id, ext) ==
  \E temp_file \in {TempFile(1, message_id, ext)} :
  \E fs \in {Write(files, temp_file, 1)} :
  \E env \in ResubmitEnvs(ext) :
  \E r \in {process_image(temp_file, 1, env, fs, now)} :
    /\ files' = Remove(r.files, temp_file)
    /\ last' = RunRecord(message_id, temp_file, 1, env, fs, now, r)

Submit ==
  /\ last.n = 0
  /\ \E ext \in {".jpg", ".pdf"} : SubmitDocument(1, ext)
  /\ UNCHANGED <<now, parseVars, admin, called, handled, notified, shopVars>>

Resubmit ==
  /\ last.n = 1
  /\ check_receipt(last.out, last.clk.date).result = "rejected"
  /\ SubmitDocument(2, last.image_path.ext)
  /\ UNCHANGED <<now, parseVars, admin, called, handled, notified, shopVars>>

InitResubmit == Init

NextResubmit == Submit \/ Resubmit \/ Tick

SpecResubmit == InitResubmit /\ [][NextResubmit]_vars

\* ------------------------------------------------------------ SpecIsReceipt
\* is_receipt applied to every chat completion of at most MaxAnsLen
\* characters over AnswerChars, and to a failed call.
AnswerChars == {"t", "r", "u", "e", "T", "|", " "}

AnswersUpTo(n) == UNION {[1..k -> AnswerChars] : k \in 0..n}

InitIsReceipt ==
  /\ files = {}
  /\ now = [date |-> FirstDate, tod |-> 0]
  /\ last = NoRun
  /\ response \in {Raises} \cup {Returns(a) : a \in AnswersUpTo(MaxAnsLen)}
  /\ verdict = NoVerdict
  /\ NoShop
  /\ called = Unrecorded

CallIsReceipt ==
  /\ ~verdict.parsed
  /\ verdict' = [parsed |-> TRUE,
                 is_valid |-> is_receipt(ReceiptText, response),
                 reason |-> IF response.raise THEN NoReason
                            ELSE is_receipt_parts(response.val).reason]
  /\ UNCHANGED <<pipeVars, response, admin, called, shopVars, handled, notified>>

NextIsReceipt == CallIsReceipt

SpecIsReceipt == InitIsReceipt /\ [][NextIsReceipt]_vars

\* ------------------------------------------------------------ SpecReceiptBot
\* The handlers of receipt_processor/bot.py and receipt_processor/receipt_bot.py,
\* each in the FSM state its registration asks for.
WaitingForReceiptBot == "ReceiptStates:waiting_for_receipt"

\* photo.file_unique_id of the photos sent
PhotoIds == {1, 2}

\* f"temp_receipt_{message.from_user.id}.jpg" (bot.py)
TempReceiptOfUser(user_id) ==
  [kind |-> "temp_receipt", user |-> user_id, msg |-> 0, ts |-> NoTs, ext |-> ".jpg"]

\* f"temp_receipt_{message.from_user.id}_{photo.file_unique_id}.jpg" (receipt_bot.py)
TempReceiptOfPhoto(user_id, file_unique_id) ==
  [kind |-> "temp_receipt", user |-> user_id, msg |-> file_unique_id, ts |-> NoTs,
   ext |-> ".jpg"]

MsgPhotoError ==
  <<"An error occurred while processing the image. Make sure the image is sharp and try again.">>

MsgReceiptBotError ==
  <<"An error occurred while processing the receipt. Make sure the image is sharp and try again.">>

MsgReceiptBotOk == <<"Receipt verified. The receipt was saved and sent for processing.">>

MsgReceiptBotFailed(message_text) ==
  <<"Receipt check failed: ">> \o message_text \o <<"Please make sure that ...">>

\* bot.py line 70, process_image(temp_file): the call lacks the argument
\* user_id of process_image(image_path, user_id) and raises TypeError.
process_image_without_user_id(temp_file) == Raises

\* bot.py, receipt_handler: the command /check_receipt.
receipt_handler(u) ==
  /\ fsm[u] # WaitingForReceiptBot
  /\ fsm' = [fsm EXCEPT ![u] = WaitingForReceiptBot]
  /\ UNCHANGED <<pipeVars, parseVars, admin, called, data, orders, sub, next_msg, order_created,
                 handled, notified>>

\* bot.py, handle_photo on a message with a photo, lines 37-85; source:
\* get_file and the download succeed, or one raises.  The handler then
\* waits for its answer to be sent.
handle_photo(u) ==
  /\ fsm[u] = WaitingForReceiptBot
  /\ next_msg <= MaxMsgs
  /\ next_msg' = next_msg + 1
  /\ \E file_unique_id \in PhotoIds, source \in {"ok", "error"} :
     \E temp_file \in {TempReceiptOfUser(u)} :
       IF source = "error"
       THEN /\ UNCHANGED files
            /\ sub' = [sub EXCEPT ![next_msg] =
                         [IdleSub EXCEPT !.pc = "handle_photo", !.user = u,
                                         !.result = "error",
                                         !.reply = MsgPhotoError]]
       ELSE \E result \in {process_image_without_user_id(temp_file)} :
            /\ files' = IF result.raise
                        THEN Write(files, temp_file, file_unique_id)
                        ELSE Remove(Write(files, temp_file, file_unique_id), temp_file)
            /\ sub' = [sub EXCEPT ![next_msg] =
                         [IdleSub EXCEPT !.pc = "handle_photo", !.user = u,
                                         !.ext = ".jpg",
                                         !.temp_file = temp_file,
                                         !.result = IF result.raise THEN "error"
                                                    ELSE "answered",
                                         !.reply = IF result.raise THEN MsgPhotoError
                                                   ELSE result.val]]
  /\ UNCHANGED <<now, last, parseVars, admin, called, handled, notified, fsm, data, orders,
                 order_created>>

\* bot.py, handle_photo, lines 86-100: the "processing" message is deleted
\* and the state cleared, on every path.
handle_photo_finally(m) ==
  /\ sub[m].pc = "handle_photo"
  /\ handled' = [handler |-> "handle_photo", user |-> sub[m].user,
                 temp_file |-> sub[m].temp_file,
                 written |-> sub[m].temp_file # NoPath,
                 reply |-> sub[m].reply]
  /\ sub' = [sub EXCEPT ![m] = IdleSub]
  /\ StateClear(sub[m].user)
  /\ UNCHANGED <<pipeVars, parseVars, admin, called, notified, orders, next_msg>>

\* receipt_bot.py, process_receipt_image on a message with a photo, lines
\* 22-79, up to the answer being sent.
process_receipt_image(u) ==
  /\ fsm[u] = WaitingForReceiptBot
  /\ next_msg <= MaxMsgs
  /\ next_msg' = next_msg + 1
  /\ \E file_unique_id \in PhotoIds, source \in {"ok", "error"} :
     \E temp_file \in {TempReceiptOfPhoto(u, file_unique_id)} :
       IF source = "error"
       THEN /\ UNCHANGED files
            /\ sub' = [sub EXCEPT ![next_msg] =
                         [IdleSub EXCEPT !.pc = "process_receipt_image",
                                         !.user = u, !.result = "error",
                                         !.reply = MsgReceiptBotError]]
       ELSE \E env \in ShopEnvsJpg :
            \E r \in {process_image(temp_file, u, env,
                                    Write(files, temp_file, file_unique_id), now)} :
            /\ files' = r.files
            /\ sub' = [sub EXCEPT ![next_msg] =
                         [IdleSub EXCEPT !.pc = "process_receipt_image",
                                         !.user = u, !.ext = ".jpg",
                                         !.temp_file = temp_file,
                                         !.run = r.out,
                                         !.result = IF r.out.success THEN "accepted"
                                                    ELSE "rejected",
                                         !.reply = IF r.out.success
                                                   THEN MsgReceiptBotOk
                                                   ELSE MsgReceiptBotFailed(r.out.message)]]
  /\ UNCHANGED <<now, last, parseVars, admin, called, handled, notified, fsm, data, orders,
                 order_created>>

\* receipt_bot.py, process_receipt_image, lines 80-93, its finally block;
\* remove: os.remove succeeds, or raises and is logged.
process_receipt_image_finally(m) ==
  /\ sub[m].pc = "process_receipt_image"
  /\ \E remove \in {"ok", "error"} :
       files' = IF /\ sub[m].temp_file # NoPath
                   /\ Exists(files, sub[m].temp_file)
                   /\ remove = "ok"
                THEN Remove(files, sub[m].temp_file)
                ELSE files
  /\ handled' = [handler |-> "process_receipt_image", user |-> sub[m].user,
                 temp_file |-> sub[m].temp_file,
                 written |-> sub[m].temp_file # NoPath,
                 reply |-> sub[m].reply]
  /\ sub' = [sub EXCEPT ![m] = IdleSub]
  /\ UNCHANGED <<now, last, parseVars, admin, called, notified, fsm, data, orders, next_msg,
                 order_created>>

InitReceiptBot == Init

NextReceiptBot ==
  \/ \E u \in Users : receipt_handler(u)
  \/ \E u \in Users : handle_photo(u)
  \/ \E m \in 1..MaxMsgs : handle_photo_finally(m)
  \/ \E u \in Users : process_receipt_image(u)
  \/ \E m \in 1..MaxMsgs : process_receipt_image_finally(m)
  \/ Tick

SpecReceiptBot == InitReceiptBot /\ [][NextReceiptBot]_vars

\* ------------------------------------------------------------ SpecNotify
\* bool(x) of an optional string
Truthy(o) == o.some /\ o.val # <<>>

\* sep.join(pieces)
RECURSIVE join(_, _)
join(pieces, sep) ==
  IF pieces = <<>> THEN <<>>
  ELSE IF Len(pieces) = 1 THEN pieces[1]
  ELSE pieces[1] \o <<sep>> \o join(Tail(pieces), sep)

NonEmpty(line) == line # <<>>

\* Lines 67-68: the lines of the text stripped, the empty ones dropped, and
\* the rest joined by line feeds.
FormatText(text_content) ==
  LET lines == split(text_content, "\n")
      text_lines == SelectSeq([i \in 1..Len(lines) |-> strip(lines[i])], NonEmpty)
  IN  join(text_lines, "\n")

\* The HTML of an order, never empty.
create_order_email_template == <<"<div>order</div>">>

\* What a call gave: an exception or the value returned, and the parts of
\* the message handed to the SMTP server.
Gave(raise, returned, parts) == [raise |-> raise, returned |-> returned, parts |-> parts]

\* send_email(to_email, subject, text_content, html_content); password is
\* YANDEX_PASSWORD and smtp how the SMTP session goes: "ok", or the
\* connection, the login or the sending raises.
send_email(text_content, html_content, password, smtp) ==
  IF ~Truthy(password) THEN Gave(FALSE, "False", <<>>)
  ELSE LET text_part == IF Truthy(text_content)
                        THEN <<[type |-> "plain", body |-> FormatText(text_content.val)]>>
                        ELSE <<>>
           html_part == IF Truthy(html_content)
                        THEN <<[type |-> "html", body |-> html_content.val]>>
                        ELSE <<>>
       IN  IF ~Truthy(html_content) /\ ~Truthy(text_content)
           THEN Gave(FALSE, "False", <<>>)
           ELSE IF smtp # "ok"
           THEN Gave(FALSE, "False", <<>>)
           ELSE Gave(FALSE, "True", text_part \o html_part)

\* shop/notifications.py, send_email_notification(to_email, subject, body,
\* order_details): a False of send_email becomes an exception, which the
\* handler of line 34 logs and raises again.
send_email_notification(body, has_order, password, smtp) ==
  LET html_content == IF has_order THEN Some(create_order_email_template) ELSE None
      result == send_email(Some(body), html_content, password, smtp)
  IN  IF result.returned = "True"
      THEN Gave(FALSE, "None", result.parts)
      ELSE Gave(TRUE, "n/a", <<>>)

\* os.getenv('YANDEX_PASSWORD'): unset, empty, or a password.
Passwords == {None, Some(<<>>), Some(<<"p">>), Some(<<"q">>)}

Bodies == {<<>>, <<" ", "\n">>, <<"h", "i", " ", "\n", " ", "\n", "y", "o">>}

TextContents == {None} \cup {Some(b) : b \in Bodies}

HtmlContents == {None, Some(<<>>), Some(create_order_email_template)}

\* The SMTP session is opened when the credential and some content exist.
SmtpAnswers(text_content, html_content, password) ==
  IF Truthy(password) /\ (Truthy(text_content) \/ Truthy(html_content))
  THEN {"ok", "connect_error", "login_error", "send_error"}
  ELSE {"n/a"}

CallSendEmail ==
  /\ notified.op = "none"
  /\ \E text_content \in TextContents, html_content \in HtmlContents,
        password \in Passwords :
     \E smtp \in SmtpAnswers(text_content, html_content, password) :
     \E r \in {send_email(text_content, html_content, password, smtp)} :
       notified' = [op |-> "send_email", password |-> password,
                    text_content |-> text_content, has_order |-> FALSE,
                    html_content |-> html_content, smtp |-> smtp,
                    raise |-> r.raise, returned |-> r.returned, parts |-> r.parts]
  /\ UNCHANGED <<pipeVars, parseVars, admin, called, shopVars, handled>>

CallSendEmailNotification ==
  /\ notified.op = "none"
  /\ \E body \in Bodies, has_order \in BOOLEAN, password \in Passwords :
     \E html_content \in {IF has_order THEN Some(create_order_email_template) ELSE None} :
     \E smtp \in SmtpAnswers(Some(body), html_content, password) :
     \E r \in {send_email_notification(body, has_order, password, smtp)} :
       notified' = [op |-> "send_email_notification", password |-> password,
                    text_content |-> Some(body), has_order |-> has_order,
                    html_content |-> html_content, smtp |-> smtp,
                    raise |-> r.raise, returned |-> r.returned, parts |-> r.parts]
  /\ UNCHANGED <<pipeVars, parseVars, admin, called, shopVars, handled>>

InitNotify == Init

NextNotify == CallSendEmail \/ CallSendEmailNotification

SpecNotify == InitNotify /\ [][NextNotify]_vars

\* ------------------------------------------------------------ SpecCart
\* The cart callbacks and the checkout, on carts of up to MaxCartItems
\* items.  Telegram calls succeed in this specification.
CartActions == {"clear", "increase", "decrease", "remove", "info"}

\* ChangeItem decreasing without looking at the quantity.
ChangeItem_decrease_unchecked(cart, action, product_id) ==
  IF action = "increase"
  THEN {IF item.id = product_id THEN [item EXCEPT !.quantity = @ + 1] ELSE item :
        item \in cart}
  ELSE IF action = "decrease"
  THEN {IF item.id = product_id
        THEN [item EXCEPT !.quantity = @ - 1] ELSE item : item \in cart}
  ELSE IF action = "remove"
  THEN {item \in cart : item.id # product_id}
  ELSE cart

\* Lines 467-481 of process_cart_callback.
ChangeItem(cart, action, product_id) ==
  IF action = "increase"
  THEN {IF item.id = product_id THEN [item EXCEPT !.quantity = @ + 1] ELSE item :
        item \in cart}
  ELSE IF action = "decrease"
  THEN {IF item.id = product_id /\ item.quantity > 1
        THEN [item EXCEPT !.quantity = @ - 1] ELSE item : item \in cart}
  ELSE IF action = "remove"
  THEN {item \in cart : item.id # product_id}
  ELSE cart

\* process_cart_callback on cart_<action>_<product_id>; the checkout
\* action is process_cart_checkout.
cart_callback(cart, action, product_id) ==
  IF action = "clear" THEN {}
  ELSE IF ~InCart(cart, product_id) THEN cart
  ELSE ChangeItem(cart, action, product_id)

process_cart_callback(u) ==
  /\ \E action \in CartActions, product_id \in PickedIds :
       /\ action = "increase" => CartCount(data[u].cart) < MaxCartItems
       /\ data' = [data EXCEPT ![u].cart = cart_callback(@, action, product_id)]
       /\ called' = Call("process_cart_callback", action, product_id, NoText)
  /\ UNCHANGED <<pipeVars, parseVars, admin, handled, notified, fsm, orders, sub, next_msg, order_created>>

InitCart ==
  /\ files = {}
  /\ now = [date |-> FirstDate, tod |-> 0]
  /\ last = NoRun
  /\ response = Unused
  /\ verdict = NoVerdict
  /\ NoShop
  /\ called = NoCalled

NextCart ==
  \/ \E u \in Users : add_to_cart(u, MaxCartItems)
  \/ \E u \in Users : process_cart_callback(u)
  \/ \E u \in Users : process_cart_checkout(u)
  \/ \E u \in Users : process_customer_name(u)
  \/ \E u \in Users : process_customer_phone(u)
  \/ \E u \in Users : process_customer_email(u)
  \/ \E u \in Users : process_delivery_address(u)

SpecCart == InitCart /\ [][NextCart]_vars

\* ------------------------------------------------------------ SpecAdmin
\* Text messages fed to the dispatcher, one chat at a time.  The texts stand
\* for the commands, the button captions and the free text of the source:
\*   "back to shop"       the caption of the shop's return button
\*   "cosmetology", "electronics"   the two category buttons
\*   "cart"               the cart button
\*   "product management", "exit admin panel"     the admin menu
\*   "add product", "edit product", "delete product", "list products",
\*   "back to admin menu"                         the product management menu
\*   "cancel adding"      the cancel button of the category keyboard
\*   "ID:1 - face cream"  the button of product 1 in the list for editing
\*   "change name", "change price", "change description", "change
\*   specifications", "change availability", "back to products list"
\*                        the edit keyboard
\*   "x face cream (ID: 1)"   the button of product 1 in the list for
\*                        deletion
\*   "back to product management"   the return button of both lists
\* Telegram calls succeed in this specification.
CategoryButtons == {"cosmetology", "electronics"}

PlainTexts == {"cream", "10", "0"}

\* The texts of SpecAdmin: the login, the menus and the creation of a
\* product.
AdminTexts ==
  {"/admin", "/shop", "/o", "admin123", "back to shop", "product management",
   "exit admin panel", "add product", "back to admin menu", "cancel adding"}
    \cup CategoryButtons \cup PlainTexts

\* The texts of SpecCatalogue: the login, the menus, the cart, and the
\* re-pricing and the deletion of product 1.
CatalogueTexts ==
  {"/admin", "/shop", "/o", "admin123", "product management", "cart",
   "edit product", "delete product", "ID:1 - face cream", "change price",
   "x face cream (ID: 1)", "10", "0", "nan", "cosmetology"}

AllTexts == AdminTexts \cup CatalogueTexts

\* The texts that begin with one of the five emoji of the edit keyboard:
\* its buttons, and the edit and list buttons of product management.
EditCommandTexts ==
  {"change name", "change price", "change description",
   "change specifications", "change availability", "edit product",
   "list products"}

\* The texts that begin with the cross of the deletion buttons: the buttons
\* of the list for deletion and "delete product" itself.
CrossTexts == {"x face cream (ID: 1)", "delete product"}

\* int() of what stands after "ID:" up to the "-" in a button of the list
\* for editing; None where "ID:" is not in the text.
EditButtonId(text) == IF text = "ID:1 - face cream" THEN Some(1) ELSE None

\* int() of what stands after "ID: " in a button of the list for deletion;
\* None for a ValueError.
DeleteButtonId(text) == IF text = "x face cream (ID: 1)" THEN Some(1) ELSE None

AnyState == "*"

ReviewWaiting == "ReviewStates:waiting_for_review"

\* The message handlers in the order startup registers them: the shop's, the
\* review bot's, the admin panel's.  texts: the texts the filters let
\* through, AllTexts where no filter looks at the text; state: the state
\* filter, AnyState where none was given.
Registered ==
  <<[handler |-> "process_customer_name", texts |-> AllTexts,
     state |-> "WAITING_FOR_CUSTOMER_NAME"],
    [handler |-> "process_customer_phone", texts |-> AllTexts,
     state |-> "WAITING_FOR_CUSTOMER_PHONE"],
    [handler |-> "process_customer_email", texts |-> AllTexts,
     state |-> "WAITING_FOR_CUSTOMER_EMAIL"],
    [handler |-> "process_delivery_address", texts |-> AllTexts,
     state |-> "WAITING_FOR_DELIVERY_ADDRESS"],
    [handler |-> "handle_text_in_receipt_state", texts |-> AllTexts,
     state |-> "WAITING_FOR_RECEIPT"],
    [handler |-> "process_payment_receipt", texts |-> {},
     state |-> "WAITING_FOR_RECEIPT"],
    [handler |-> "shop_command_handler", texts |-> {"/shop"},
     state |-> AnyState],
    [handler |-> "shop_command_handler", texts |-> {"back to shop"},
     state |-> AnyState],
    [handler |-> "category_handler", texts |-> CategoryButtons,
     state |-> AnyState],
    [handler |-> "cart_handler", texts |-> {"cart"}, state |-> AnyState],
    [handler |-> "analyze_handler", texts |-> {"/o"}, state |-> AnyState],
    [handler |-> "review_handle_photo", texts |-> AllTexts,
     state |-> ReviewWaiting],
    [handler |-> "admin_start", texts |-> {"/admin"}, state |-> AnyState],
    [handler |-> "check_auth_code", texts |-> AllTexts,
     state |-> "WAITING_FOR_ADMIN_AUTH_CODE"],
    [handler |-> "handle_admin_menu", texts |-> AllTexts,
     state |-> "ADMIN_MENU"],
    [handler |-> "handle_product_management", texts |-> AllTexts,
     state |-> "ADMIN_PRODUCTS"],
    [handler |-> "handle_add_product_name", texts |-> AllTexts,
     state |-> "WAITING_FOR_PRODUCT_NAME"],
    [handler |-> "handle_add_product_description", texts |-> AllTexts,
     state |-> "WAITING_FOR_PRODUCT_DESCRIPTION"],
    [handler |-> "handle_add_product_price", texts |-> AllTexts,
     state |-> "WAITING_FOR_PRODUCT_PRICE"],
    [handler |-> "handle_add_product_category", texts |-> AllTexts,
     state |-> "WAITING_FOR_PRODUCT_CATEGORY"],
    [handler |-> "handle_add_product_specifications", texts |-> AllTexts,
     state |-> "WAITING_FOR_PRODUCT_SPECIFICATIONS"],
    [handler |-> "handle_product_editing", texts |-> AllTexts,
     state |-> "EDITING_PRODUCT"],
    [handler |-> "process_new_product_name", texts |-> AllTexts,
     state |-> "WAITING_FOR_NEW_PRODUCT_NAME"],
    [handler |-> "process_new_product_price", texts |-> AllTexts,
     state |-> "WAITING_FOR_NEW_PRODUCT_PRICE"],
    [handler |-> "process_new_product_description", texts |-> AllTexts,
     state |-> "WAITING_FOR_NEW_PRODUCT_DESCRIPTION"],
    [handler |-> "process_new_product_specifications", texts |-> AllTexts,
     state |-> "WAITING_FOR_NEW_PRODUCT_SPECS"],
    [handler |-> "handle_product_deletion", texts |-> AllTexts,
     state |-> "WAITING_FOR_PRODUCT_ID_TO_DELETE"]>>

\* The registration passes a message with this text in this FSM state.
Matches(reg, state, text) ==
  text \in reg.texts /\ (reg.state = AnyState \/ reg.state = state)

\* The dispatcher calls the first registered handler whose filters pass, and
\* no other; "none" when no filter passes.
Route(state, text) ==
  LET passing == {i \in 1..Len(Registered) : Matches(Registered[i], state, text)}
  IN  IF passing = {} THEN "none"
      ELSE Registered[Only({i \in passing : \A j \in passing : i <= j})].handler

\* The chat's session as a handler sees it, before it has answered.
Session(u) ==
  [state |-> fsm[u], new_product |-> admin.new_product[u],
   cart |-> data[u].cart, products |-> admin.products,
   catalogue |-> admin.catalogue, reply |-> "", inserted |-> FALSE,
   shown |-> 0, cleared |-> FALSE]

\* state.clear()
Cleared(s) ==
  [s EXCEPT !.state = "none", !.new_product = NoNewProduct, !.cart = {},
            !.cleared = TRUE]

\* float(message.text) on the texts of AdminTexts: None for a ValueError.
ParseFloat(text) ==
  CASE text = "10" -> Some(10)
    [] text = "0" -> Some(0)
    [] text = "nan" -> Some(NaN)
    [] OTHER -> None

shop_command_handler(s, text) ==
  [Cleared(s) EXCEPT !.reply = "welcome to the shop"]

\* category_handler and show_product_category: the products of the category
\* are shown; the FSM state is not touched.
category_handler(s, text) ==
  LET category == IF text = "cosmetology" THEN "cosmetics" ELSE "electronics"
      products == {p \in s.catalogue : p.category = category /\ p.available}
      added == {i \in 1..Len(s.products) : s.products[i].category = category}
  IN  [s EXCEPT !.reply = IF products = {} /\ added = {}
                           THEN "no products in this category yet"
                           ELSE "products of the category"]

analyze_handler(s, text) ==
  [s EXCEPT !.reply = "send a screenshot of the review", !.state = ReviewWaiting]

\* The review bot's handle_photo on a message without a photo.
review_handle_photo(s, text) ==
  [s EXCEPT !.reply = "please send a photo of the review"]

admin_start(s, text) ==
  [s EXCEPT !.reply = "enter the authorization code",
            !.state = "WAITING_FOR_ADMIN_AUTH_CODE"]

check_auth_code(s, text) ==
  IF text = "admin123"
  THEN [s EXCEPT !.reply = "authorized", !.state = "ADMIN_MENU"]
  ELSE [Cleared(s) EXCEPT !.reply = "wrong authorization code"]

handle_admin_menu(s, text) ==
  IF s.state # "ADMIN_MENU" THEN s
  ELSE IF text = "exit admin panel"
  THEN [Cleared(s) EXCEPT !.reply = "you left the admin panel"]
  ELSE IF text = "product management"
  THEN [s EXCEPT !.state = "ADMIN_PRODUCTS", !.reply = "product management"]
  ELSE [s EXCEPT !.reply = "please use the menu buttons"]

handle_product_management(s, text) ==
  IF s.state # "ADMIN_PRODUCTS" THEN s
  ELSE IF text = "back to admin menu"
  THEN [s EXCEPT !.state = "ADMIN_MENU", !.reply = "choose a section"]
  ELSE IF text = "add product"
  THEN [s EXCEPT !.state = "WAITING_FOR_PRODUCT_NAME",
                 !.reply = "enter the name of the new product"]
  ELSE IF text = "edit product"
  THEN [s EXCEPT !.state = "EDITING_PRODUCT", !.reply = "products for editing"]
  ELSE IF text = "delete product"
  THEN [s EXCEPT !.state = "WAITING_FOR_PRODUCT_ID_TO_DELETE",
                 !.reply = "products for deletion"]
  ELSE IF text = "list products"
  THEN [s EXCEPT !.reply = "products list"]
  ELSE [s EXCEPT !.reply = "choose an action from the menu"]

handle_add_product_name(s, text) ==
  [s EXCEPT !.new_product.new_product_name = Some(text),
            !.reply = "enter the description",
            !.state = "WAITING_FOR_PRODUCT_DESCRIPTION"]

handle_add_product_description(s, text) ==
  [s EXCEPT !.new_product.new_product_description = Some(text),
            !.reply = "enter the price (a number only)",
            !.state = "WAITING_FOR_PRODUCT_PRICE"]

handle_add_product_price(s, text) ==
  LET price == ParseFloat(text)
  IN  IF ~price.some \/ FloatLe(price.val, 0)
      THEN [s EXCEPT !.reply = "please enter a correct number for the price"]
      ELSE [s EXCEPT !.new_product.new_product_price = price,
                     !.reply = "choose the category",
                     !.state = "WAITING_FOR_PRODUCT_CATEGORY"]

handle_add_product_category(s, text) ==
  IF text = "cancel adding"
  THEN [s EXCEPT !.state = "ADMIN_PRODUCTS", !.reply = "adding cancelled"]
  ELSE IF text \notin CategoryButtons
  THEN [s EXCEPT !.reply = "please choose a category from the list"]
  ELSE [s EXCEPT !.new_product.new_product_category =
                    Some(IF text = "cosmetology" THEN "cosmetics"
                         ELSE "electronics"),
                 !.reply = "enter the specifications",
                 !.state = "WAITING_FOR_PRODUCT_SPECIFICATIONS"]

\* db: whether the insertion commits ("ok") or raises ("error").  A key
\* missing from the FSM data raises KeyError.
handle_add_product_specifications(s, text, db) ==
  LET d == s.new_product
      complete == /\ d.new_product_name.some /\ d.new_product_description.some
                  /\ d.new_product_price.some /\ d.new_product_category.some
  IN  IF complete /\ db = "ok"
      THEN [s EXCEPT !.products =
                       Append(s.products,
                              [name |-> d.new_product_name.val,
                               description |-> d.new_product_description.val,
                               price |-> d.new_product_price.val,
                               category |-> d.new_product_category.val,
                               specifications |-> text, available |-> TRUE]),
                     !.inserted = TRUE,
                     !.reply = "product added",
                     !.state = "ADMIN_PRODUCTS"]
      ELSE [s EXCEPT !.reply = "error while adding the product",
                     !.state = "ADMIN_PRODUCTS"]

\* The row of the products table with this id, as a set: empty when the
\* query finds none.
ProductById(catalogue, product_id) == {p \in catalogue : p.id = product_id}

\* cart_handler: the items whose product is still in the table are listed
\* and their subtotals added up.
RECURSIVE ListedSum(_, _)
ListedSum(cart, catalogue) ==
  IF cart = {} THEN 0
  ELSE LET item == CHOOSE i \in cart : TRUE
           rest == ListedSum(cart \ {item}, catalogue)
       IN  IF ProductById(catalogue, item.id) = {} THEN rest
           ELSE FloatAdd(rest, FloatMul(item.price, item.quantity))

cart_handler(s, text) ==
  IF s.cart = {} THEN [s EXCEPT !.reply = "your cart is empty"]
  ELSE [s EXCEPT !.reply = "your cart", !.shown = ListedSum(s.cart, s.catalogue)]

\* handle_edit_field, called by handle_product_editing.
handle_edit_field(s, text) ==
  LET product_id == s.new_product.editing_product_id
  IN  IF ~product_id.some
      THEN [s EXCEPT !.reply = "error: no product chosen"]
      ELSE IF ProductById(s.catalogue, product_id.val) = {}
      THEN [s EXCEPT !.reply = "product not found"]
      ELSE IF text = "back to products list"
      THEN [s EXCEPT !.state = "ADMIN_PRODUCTS", !.reply = "choose an action"]
      ELSE IF text = "change availability"
      THEN [s EXCEPT !.catalogue =
                       {IF p.id = product_id.val
                        THEN [p EXCEPT !.available = ~p.available] ELSE p :
                        p \in s.catalogue},
                     !.reply = "availability changed",
                     !.state = "ADMIN_PRODUCTS"]
      ELSE IF text = "change name"
      THEN [s EXCEPT !.state = "WAITING_FOR_NEW_PRODUCT_NAME",
                     !.reply = "enter the new name"]
      ELSE IF text = "change price"
      THEN [s EXCEPT !.state = "WAITING_FOR_NEW_PRODUCT_PRICE",
                     !.reply = "enter the new price (a number only)"]
      ELSE IF text = "change description"
      THEN [s EXCEPT !.state = "WAITING_FOR_NEW_PRODUCT_DESCRIPTION",
                     !.reply = "enter the new description"]
      ELSE IF text = "change specifications"
      THEN [s EXCEPT !.state = "WAITING_FOR_NEW_PRODUCT_SPECS",
                     !.reply = "enter the new specifications"]
      ELSE [s EXCEPT !.reply = "choose an action from the menu"]

handle_product_editing(s, text) ==
  IF text = "back to product management"
  THEN [s EXCEPT !.state = "ADMIN_PRODUCTS", !.reply = "choose an action"]
  ELSE IF text \in EditCommandTexts THEN handle_edit_field(s, text)
  ELSE LET product_id == EditButtonId(text)
       IN  IF ~product_id.some
           THEN [s EXCEPT !.reply = "please choose a product from the list"]
           ELSE IF ProductById(s.catalogue, product_id.val) = {}
           THEN [s EXCEPT !.reply = "product not found"]
           ELSE [s EXCEPT !.new_product.editing_product_id = product_id,
                          !.reply = "current data of the product"]

\* db: whether the commit succeeds ("ok") or raises and is rolled back
\* ("error").
process_new_product_price(s, text, db) ==
  LET new_price == ParseFloat(text)
      product_id == s.new_product.editing_product_id
  IN  IF ~new_price.some \/ FloatLe(new_price.val, 0)
      THEN [s EXCEPT !.reply = "please enter a correct number for the price"]
      ELSE IF ~product_id.some \/ ProductById(s.catalogue, product_id.val) = {}
      THEN [s EXCEPT !.reply = "product not found", !.state = "ADMIN_PRODUCTS"]
      ELSE IF db = "error"
      THEN [s EXCEPT !.reply = "error while saving the new price",
                     !.state = "ADMIN_PRODUCTS"]
      ELSE [s EXCEPT !.catalogue =
                       {IF p.id = product_id.val
                        THEN [p EXCEPT !.price = new_price.val] ELSE p :
                        p \in s.catalogue},
                     !.reply = "price changed",
                     !.state = "ADMIN_PRODUCTS"]

handle_product_deletion(s, text, db) ==
  IF text = "back to product management"
  THEN [s EXCEPT !.state = "ADMIN_PRODUCTS", !.reply = "choose an action"]
  ELSE IF text \notin CrossTexts
  THEN [s EXCEPT !.reply = "please choose a product from the list"]
  ELSE LET product_id == DeleteButtonId(text)
       IN  IF ~product_id.some
           THEN [s EXCEPT !.reply = "error while determining the product id"]
           ELSE IF ProductById(s.catalogue, product_id.val) = {}
           THEN [s EXCEPT !.reply = "product not found"]
           ELSE IF db = "error"
           THEN [s EXCEPT !.reply = "error while deleting the product",
                          !.state = "ADMIN_PRODUCTS"]
           ELSE [s EXCEPT !.catalogue =
                            {p \in s.catalogue : p.id # product_id.val},
                          !.reply = "product deleted",
                          !.state = "ADMIN_PRODUCTS"]

\* The handler the dispatcher chose, run on the session.  The handlers of the
\* order states and of the new name, description and specifications of a
\* product are never chosen for the texts of AllTexts.
Handle(handler, s, text, db) ==
  CASE handler = "none" -> s
    [] handler = "shop_command_handler" -> shop_command_handler(s, text)
    [] handler = "category_handler" -> category_handler(s, text)
    [] handler = "analyze_handler" -> analyze_handler(s, text)
    [] handler = "review_handle_photo" -> review_handle_photo(s, text)
    [] handler = "admin_start" -> admin_start(s, text)
    [] handler = "check_auth_code" -> check_auth_code(s, text)
    [] handler = "handle_admin_menu" -> handle_admin_menu(s, text)
    [] handler = "handle_product_management" ->
         handle_product_management(s, text)
    [] handler = "handle_add_product_name" -> handle_add_product_name(s, text)
    [] handler = "handle_add_product_description" ->
         handle_add_product_description(s, text)
    [] handler = "handle_add_product_price" -> handle_add_product_price(s, text)
    [] handler = "handle_add_product_category" ->
         handle_add_product_category(s, text)
    [] handler = "handle_add_product_specifications" ->
         handle_add_product_specifications(s, text, db)
    [] handler = "cart_handler" -> cart_handler(s, text)
    [] handler = "handle_product_editing" -> handle_product_editing(s, text)
    [] handler = "process_new_product_price" ->
         process_new_product_price(s, text, db)
    [] handler = "handle_product_deletion" ->
         handle_product_deletion(s, text, db)

\* How far the messages sent so far follow the creation of a product: 1 after
\* "add product" sent in ADMIN_PRODUCTS, then 2 after a name, 3 after a
\* description, 4 after a positive price, 5 after a category button, 6 after
\* the specifications; 0 when the latest message was none of these.
Script(script, state, text) ==
  IF state = "ADMIN_PRODUCTS" /\ text = "add product" THEN 1
  ELSE IF script \in {1, 2, 5} /\ text \in PlainTexts THEN script + 1
  ELSE IF script = 3 /\ ParseFloat(text).some /\ FloatGt(ParseFloat(text).val, 0)
  THEN 4
  ELSE IF script = 4 /\ text \in CategoryButtons THEN 5
  ELSE 0

\* Whether check_auth_code has received the right code since the session
\* was last reset by state.clear().
Authorized(authorized, handler, text, cleared) ==
  IF cleared THEN FALSE
  ELSE IF handler = "check_auth_code" /\ text = "admin123" THEN TRUE
  ELSE authorized

\* The handlers that commit to the database.
DbWriters ==
  {"handle_add_product_specifications", "process_new_product_price",
   "handle_product_deletion"}

\* webhook: one message update of chat u, with one of these texts, goes
\* through dp.feed_update.
feed_update(u, texts) ==
  /\ \E text \in texts, db \in {"ok", "error"} :
       \E handler \in {Route(fsm[u], text)} :
         \E r \in {Handle(handler, Session(u), text, db)} :
           /\ db = "error" => handler \in DbWriters
           /\ fsm' = [fsm EXCEPT ![u] = r.state]
           /\ data' = IF r.cleared THEN [data EXCEPT ![u] = NoData] ELSE data
           /\ order_created' = IF r.cleared
                               THEN [order_created EXCEPT ![u] = NoDate]
                               ELSE order_created
           /\ admin' = [products |-> r.products, catalogue |-> r.catalogue,
                        shown |-> r.shown,
                        new_product |->
                          [admin.new_product EXCEPT ![u] = r.new_product],
                        text |-> text, handler |-> handler, reply |-> r.reply,
                        inserted |-> r.inserted,
                        script |-> Script(admin.script, fsm[u], text),
                        authorized |->
                          [admin.authorized EXCEPT
                             ![u] = Authorized(@, handler, text, r.cleared)],
                        auth_code |-> admin.auth_code]
  /\ UNCHANGED <<pipeVars, parseVars, called, handled, notified, orders, sub,
                 next_msg>>

InitAdmin == Init

NextAdmin == \E u \in Users : feed_update(u, AdminTexts)

SpecAdmin == InitAdmin /\ [][NextAdmin]_vars

\* ------------------------------------------------------------ SpecCatalogue
\* One chat fills its cart and, logged in as admin, re-prices and deletes
\* product 1.
InitCatalogue == Init

NextCatalogue ==
  \/ \E u \in Users : feed_update(u, CatalogueTexts)
  \/ \E u \in Users : add_to_cart(u, MaxItems)

SpecCatalogue == InitCatalogue /\ [][NextCatalogue]_vars

\* ------------------------------------------------------------ SpecAuth
\* The admin login with check_auth_code in two steps, as it runs when a
\* second update of the chat is handled while it waits for its answer to
\* be sent: every webhook request is fed to the dispatcher in a task of
\* its own, and the dispatcher isolates no events.
AuthTexts ==
  {"/admin", "/shop", "admin123", "0", "product management",
   "back to admin menu", "exit admin panel"}

\* check_auth_code up to its await of message.answer: the code is
\* compared and the answer is under way.
check_auth_code_answer(u) ==
  /\ ~admin.auth_code[u].some
  /\ \E text \in AuthTexts :
       /\ Route(fsm[u], text) = "check_auth_code"
       /\ admin' = [admin EXCEPT
                      !.text = text, !.handler = "check_auth_code",
                      !.reply = check_auth_code(Session(u), text).reply,
                      !.inserted = FALSE, !.shown = 0,
                      !.script = Script(admin.script, fsm[u], text),
                      !.authorized[u] =
                        Authorized(@, "check_auth_code", text, FALSE),
                      !.auth_code[u] = Some(text)]
  /\ UNCHANGED <<pipeVars, parseVars, called, handled, notified, fsm, data,
                 orders, sub, next_msg, order_created>>

\* check_auth_code from there on: set_state(ADMIN_MENU) after the right
\* code, state.clear() after any other.
check_auth_code_set_state(u) ==
  /\ admin.auth_code[u].some
  /\ \E r \in {check_auth_code(Session(u), admin.auth_code[u].val)} :
       /\ fsm' = [fsm EXCEPT ![u] = r.state]
       /\ data' = IF r.cleared THEN [data EXCEPT ![u] = NoData] ELSE data
       /\ order_created' = IF r.cleared
                           THEN [order_created EXCEPT ![u] = NoDate]
                           ELSE order_created
       /\ admin' = [admin EXCEPT
                      !.new_product[u] = r.new_product,
                      !.authorized[u] = IF r.cleared THEN FALSE ELSE @,
                      !.auth_code[u] = None]
  /\ UNCHANGED <<pipeVars, parseVars, called, handled, notified, orders, sub,
                 next_msg>>

InitAuth == Init

NextAuth ==
  \/ \E u \in Users : feed_update(u, AuthTexts)
  \/ \E u \in Users : check_auth_code_answer(u)
  \/ \E u \in Users : check_auth_code_set_state(u)

SpecAuth == InitAuth /\ [][NextAuth]_vars

\* ------------------------------------------------------------ process_image: properties
\* The latest run made the external call c.
Called(c) == \E i \in 1..Len(last.calls) : last.calls[i] = c

\* The files the latest run left under temp_receipts/.
Archived == {f \in last.after \ last.before : f.path.kind = "receipt"}

\* An OCR attempt that was made and gave no text but white space.
OcrBlank(resp) == resp # Unused /\ ~resp.raise /\ strip(resp.val) = <<>>

\* The validity check was made and answered false.
ValidityFalse == Called("is_receipt") /\ ~is_receipt(ReceiptText, last.env.valid)

\* The validity check was made and answered true.
ValidityTrue == Called("is_receipt") /\ is_receipt(ReceiptText, last.env.valid)

\* C4: when the Russian-locale and the generic OCR attempt both give empty
\* or white-space-only text, process_image rejects with "text not
\* recognized", makes no classification call and archives nothing.
C4_BlankTextRejected ==
  (OcrBlank(last.env.ocr_rus) /\ OcrBlank(last.env.ocr_gen)) =>
    /\ last.out = Rejected(MsgNoText)
    /\ ~Called("is_receipt")
    /\ ~Called("extract_date_from_receipt")
    /\ ~Called("copy2")
    /\ Archived = {}

C4_Witness ==
  /\ last.env.ocr_rus = Returns(<<>>)
  /\ last.env.ocr_gen = Returns(<<" ", "\n">>)
  /\ Called("ocr_generic")
  /\ last.out = Rejected(MsgNoText)

\* C5: when the validity check answers false, process_image rejects and
\* extract_date_from_receipt is not called in that run.
C5_NoDateCallAfterInvalid ==
  ValidityFalse =>
    /\ ~last.out.success
    /\ ~Called("extract_date_from_receipt")

C5_Witness ==
  /\ last.env.valid = Returns(<<"f", "a", "l", "s", "e", "|", "n", "o">>)
  /\ Called("is_receipt")
  /\ ~last.out.success

\* C6: when the validity check answers false, the message of the rejection
\* is the reason the classifier gave after the delimiter.
C6_ReasonReported ==
  (ValidityFalse /\ ~last.env.valid.raise
     /\ ~is_receipt_parts(last.env.valid.val).reason.none) =>
    last.out.message = is_receipt_parts(last.env.valid.val).reason.val

\* The date-extraction answer of the latest run is not_found, or is no
\* DD.MM.YYYY date.
DateAnswerUnusable ==
  /\ Called("extract_date_from_receipt")
  /\ ~last.env.date.raise
  /\ \/ strip(last.env.date.val) = NotFoundStr
     \/ strptime(strip(last.env.date.val)) = NoDate

C9_TransportErrorRejected ==
  /\ (Called("is_receipt") /\ last.env.valid.raise) =>
       /\ last.out = Rejected(MsgNotReceipt)
       /\ ~Called("extract_date_from_receipt")
       /\ Archived = {}
  /\ (Called("extract_date_from_receipt") /\ last.env.date.raise) =>
       /\ last.out = Rejected(MsgNoDate)
       /\ Archived = {}

C9_Witness ==
  /\ ValidityTrue
  /\ Called("extract_date_from_receipt")
  /\ last.env.date = Raises
  /\ last.out = Rejected(MsgNoDate)

\* C10: an exception of the Russian-locale OCR attempt is treated like an
\* empty result: the generic attempt is still made, and when no text comes
\* of it the outcome is "text not recognized".
C10_OcrExceptionLikeEmpty ==
  (Called("ocr_rus") /\ last.env.ocr_rus.raise) =>
    /\ Called("ocr_generic")
    /\ (last.env.ocr_gen.raise \/ OcrBlank(last.env.ocr_gen)) =>
         last.out = Rejected(MsgNoText)

\* ------------------------------------------------------------ is_receipt: properties
HasDelimiter(s) == \E i \in 1..Len(s) : s[i] = "|"

\* The part of the answer, as received, before its first delimiter.
BeforeDelimiter(s) == split(s, "|")[1]

\* s reads: white space, then true in any letter case, then the delimiter
\* or nothing but white space.
ReadsTrue(s) ==
  \E i \in 0..Len(s) :
    /\ \A j \in 1..i : s[j] \in Whitespace
    /\ Len(s) >= i + 4
    /\ [j \in 1..4 |-> LowerChar(s[i + j])] = TrueStr
    /\ \/ Len(s) > i + 4 /\ s[i + 5] = "|"
       \/ \A j \in (i + 5)..Len(s) : s[j] \in Whitespace

\* C8, as stated: an answer without the delimiter is a false validity with
\* no reason, and an answer whose part before the first delimiter is not
\* the literal true is a false validity.
C8_AsStated ==
  (verdict.parsed /\ ~response.raise) =>
    /\ ~HasDelimiter(response.val) =>
         (~verdict.is_valid /\ verdict.reason = NoReason)
    /\ BeforeDelimiter(response.val) # TrueStr => ~verdict.is_valid

\* C8, amended: an answer without the delimiter has no reason and is parsed
\* without an error; the validity is true exactly when the answer, after
\* leading white space, reads true in any letter case followed by the
\* delimiter or by nothing but white space, so that a bare true is accepted.
C8_Amended ==
  (verdict.parsed /\ ~response.raise) =>
    /\ ~HasDelimiter(response.val) => verdict.reason = NoReason
    /\ verdict.is_valid <=> ReadsTrue(response.val)

C8_Witness ==
  /\ verdict.parsed
  /\ response = Returns(TrueStr)
  /\ verdict.is_valid
  /\ verdict.reason = NoReason

\* ------------------------------------------------------------ shop flow: properties
\* The handler of message m has decided and has not yet cleaned up.
Decided(m) == sub[m].pc = "finally" /\ sub[m].result # "error"

\* The archived copies of the document of message m.
ArchivedCopies(m) == {f \in files : f.path.kind = "receipt" /\ f.data = m}

\* C1: while a submission stands rejected, the date mismatch of the shop
\* flow included, no archived copy of its document exists.
C1_RejectedNotArchived ==
  \A m \in 1..MaxMsgs :
    (Decided(m) /\ sub[m].result = "rejected") => ArchivedCopies(m) = {}

\* C2: a submission that passed process_image is accepted by the shop flow
\* exactly when the date of the receipt is the date on which the order was
\* created.
C2_ComparedWithOrderDate ==
  \A m \in 1..MaxMsgs :
    (Decided(m) /\ sub[m].run.success
       /\ order_created[sub[m].user] # NoDate) =>
      (sub[m].result = "accepted"
         <=> sub[m].run.receipt_date = order_created[sub[m].user])

\* C3: when a submission is accepted, the order of the user has the payment
\* status paid.
C3_OrderMarkedPaid ==
  \A m \in 1..MaxMsgs :
    (Decided(m) /\ sub[m].result = "accepted") =>
      \E o \in orders : o.user_id = sub[m].user /\ o.payment_status = "paid"

\* ------------------------------------------------------------ process_image: more properties
\* The positions of the call c among the external calls of the latest run.
CallsOf(c) == {i \in 1..Len(last.calls) : last.calls[i] = c}

RenderingLeft == {f \in last.after : f.path.kind \in {"tmpdir", "converted"}}

ReceiptRecords(run) == {}

\* C14: an accepted submission is archived under a name built from the user
\* id and the archival timestamp, and a ReceiptRecord of the archived file
\* holds the expiration, that timestamp plus 24 hours.
C14_ExpirationRecorded ==
  last.out.success =>
    /\ last.out.receipt_path =
         ReceiptFile(last.user_id, last.clk, last.image_path.ext)
    /\ \E rec \in ReceiptRecords(last) :
         /\ rec.path = last.out.receipt_path
         /\ rec.expiration_time = AddHours(last.clk, 24)

\* A call of the latest run failed: the file is missing, or the PDF
\* rendering, the opening of the image, an OCR attempt, a classifier call or
\* the archiving did not succeed.
SomeCallFailed ==
  \/ ~Exists(last.before, last.image_path)
  \/ Called("convert_from_path") /\ last.env.pdf # "ok"
  \/ Called("Image.open") /\ last.env.open # "ok"
  \/ Called("ocr_rus") /\ last.env.ocr_rus.raise
  \/ Called("ocr_generic") /\ last.env.ocr_gen.raise
  \/ Called("is_receipt") /\ last.env.valid.raise
  \/ Called("extract_date_from_receipt") /\ last.env.date.raise
  \/ Called("copy2") /\ last.env.copy # "ok"

\* C15: process_image always returns an outcome, never an exception; when
\* the file access, the PDF rendering, the opening of the image, OCR, the
\* classification or the archiving fails, the outcome is a rejection with a
\* message.
C15_NeverRaises ==
  last.n > 0 =>
    /\ DOMAIN last.out = DOMAIN Rejected(<<>>)
    /\ SomeCallFailed =>
         /\ last.out.success = FALSE
         /\ last.out.message # <<>>

C15_Witness ==
  /\ last.env.ocr_rus = Returns(<<>>)
  /\ Called("ocr_generic")
  /\ last.env.ocr_gen = Raises
  /\ last.out = Rejected(MsgFileError)

\* C16: the outcome of process_image is well-formed: an accepted one holds
\* the payment date and the archived path, a rejected one holds neither, and
\* the message is never empty.
C16_OutcomeWellFormed ==
  last.n > 0 =>
    /\ last.out.success \in BOOLEAN
    /\ last.out.success =>
         /\ last.out.receipt_date # NoDate
         /\ last.out.receipt_path # NoPath
    /\ ~last.out.success =>
         /\ last.out.receipt_date = NoDate
         /\ last.out.receipt_path = NoPath
    /\ last.out.message # <<>>
    /\ \A i \in 1..Len(last.out.message) : last.out.message[i] # ""

C16_Witness ==
  /\ last.n > 0
  /\ last.out.success
  /\ last.out.receipt_date \in Dates
  /\ last.out.receipt_path.kind = "receipt"
  /\ last.out.message = MsgOk

\* The rendering of the PDF was attempted and gave no page or raised.
RenderFailed ==
  /\ last.image_path.ext = ".pdf"
  /\ Called("convert_from_path")
  /\ last.env.pdf \in {"no_pages", "poppler", "error"}

\* C17: when the rendering of a PDF gives no page or raises, process_image
\* rejects without any OCR attempt, and the message tells a missing Poppler
\* from a document that could not be processed.
C17_RenderFailureRejected ==
  RenderFailed =>
    /\ ~last.out.success
    /\ ~Called("Image.open")
    /\ ~Called("ocr_rus")
    /\ ~Called("ocr_generic")
    /\ Archived = {}
    /\ last.out.message = MsgPoppler <=> last.env.pdf = "poppler"
    /\ last.env.pdf = "no_pages" => last.out.message = MsgPdfNoPages
    /\ last.env.pdf = "error" => last.out.message = MsgPdfError

C17_Witness ==
  /\ RenderFailed
  /\ last.env.pdf = "poppler"
  /\ last.out = Rejected(MsgPoppler)
  /\ ~Called("ocr_rus")

\* The call c of the latest run has an earlier call among those of before.
Preceded(c, before) ==
  \A i \in CallsOf(c) : \E j \in 1..(i - 1) : last.calls[j] \in before

\* An OCR attempt of the latest run gave a text that is not blank.
OcrGaveText ==
  \/ /\ Called("ocr_rus") /\ ~last.env.ocr_rus.raise
     /\ strip(last.env.ocr_rus.val) # <<>>
  \/ /\ Called("ocr_generic") /\ ~last.env.ocr_gen.raise
     /\ strip(last.env.ocr_gen.val) # <<>>

\* C27: in a run the image is opened before OCR; the validity check comes
\* after an OCR attempt that gave text; the date extraction after a validity
\* check that answered true; the archiving after a date extraction that gave
\* a date; and the shop handler accepts only a run that went through all of
\* them and whose date is the current date.
C27_StagesInOrder ==
  /\ Preceded("ocr_rus", {"Image.open"})
  /\ Preceded("is_receipt", {"ocr_rus", "ocr_generic"})
  /\ Called("is_receipt") => OcrGaveText
  /\ Preceded("extract_date_from_receipt", {"is_receipt"})
  /\ Called("extract_date_from_receipt") => ValidityTrue
  /\ Preceded("copy2", {"extract_date_from_receipt"})
  /\ Called("copy2") =>
       extract_date_from_receipt(ReceiptText, last.env.date) # NoDate
  /\ \A current_date \in Dates :
       (last.n > 0 /\ check_receipt(last.out, current_date).result = "accepted") =>
         /\ Called("copy2")
         /\ last.env.copy = "ok"
         /\ extract_date_from_receipt(ReceiptText, last.env.date) = current_date

C27_Witness ==
  /\ last.calls = <<"Image.open", "ocr_rus", "ocr_generic", "is_receipt",
                    "extract_date_from_receipt", "copy2">>
  /\ check_receipt(last.out, last.clk.date).result = "accepted"

\* ------------------------------------------------------------ handlers: properties
\* C13: when a handler that wrote the submitted document to a temporary
\* file has finished, on any path, that file does not exist.
C13_TempFileGone ==
  handled.written => ~Exists(files, handled.temp_file)

\* The messages that tell the user the receipt is not a valid payment.
InvalidReceiptMessages == {MsgNoText, MsgNotReceipt, MsgNoDate, MsgDateMismatch}

\* The archiving of a receipt that passed the classification failed.
ArchiveFailed == Called("copy2") /\ last.env.copy # "ok"

LeftByEarlier == {f \in last.before : f.path # last.image_path}

NotAcceptingStep(u) ==
  \/ /\ fsm[u] = "WAITING_FOR_RECEIPT"
     /\ next_msg' # next_msg
  \/ \E m \in 1..MaxMsgs :
       /\ sub[m].pc = "finally"
       /\ sub[m].user = u
       /\ sub[m].result # "accepted"
       /\ sub'[m].pc = "idle"

\* C23: a step of process_payment_receipt that does not accept leaves the
\* session in WAITING_FOR_RECEIPT and its checkout data as they were.
C23_RejectionKeepsSession ==
  [][\A u \in Users :
       (fsm[u] = "WAITING_FOR_RECEIPT" /\ NotAcceptingStep(u)) =>
         /\ fsm'[u] = "WAITING_FOR_RECEIPT"
         /\ data'[u] = data[u]]_vars

\* The handler of message m has started and has not returned.
InFlight(m) == sub[m].pc # "idle"

\* C24: no two submissions of the same user are in flight together.
C24_OneInFlightPerOrder ==
  \A m1, m2 \in 1..MaxMsgs :
    (InFlight(m1) /\ InFlight(m2) /\ sub[m1].user = sub[m2].user) => m1 = m2

\* C25: no two submissions in flight use the same temporary file.
C25_TempFilesNotShared ==
  \A m1, m2 \in 1..MaxMsgs :
    (/\ InFlight(m1) /\ InFlight(m2)
     /\ sub[m1].temp_file # NoPath
     /\ sub[m1].temp_file = sub[m2].temp_file) => m1 = m2

\* The handler of message m returns in this step.
HandlerReturns(m) == sub[m].pc = "finally" /\ sub'[m].pc = "idle"

\* C26: a submission that process_payment_receipt took up returns with one
\* outcome answered to the user, accepted, rejected or failed; when the
\* outcome is accepted, the session is left in ORDER_PAID.
C26_OneTerminalState ==
  [][\A m \in 1..MaxMsgs :
       HandlerReturns(m) =>
         /\ sub[m].result \in {"accepted", "rejected", "error"}
         /\ sub[m].reply # <<>>
         /\ sub[m].result = "accepted" =>
              fsm'[sub[m].user] = "ORDER_PAID"]_vars

\* The archived files of the submissions that stand accepted.
AcceptedArchives ==
  {f \in files : \E m \in 1..MaxMsgs :
     /\ Decided(m)
     /\ sub[m].result = "accepted"
     /\ f.path = sub[m].run.receipt_path}

\* C28: no step removes an archived file of an accepted receipt or changes
\* the bytes it holds.
C28_ArchivesUntouched ==
  [][\A f \in AcceptedArchives : f \in files']_vars

\* The handling of message m has passed the download without writing the
\* temporary file: download_file raised.
DownloadFailed(m) == sub[m].pc = "finally" /\ sub[m].temp_file = NoPath

\* C18: a submission whose file could not be fetched is rejected with the
\* reason "file not found".
C18_SourceFailureFileNotFound ==
  \A m \in 1..MaxMsgs :
    DownloadFailed(m) =>
      /\ sub[m].result = "rejected"
      /\ sub[m].reply = MsgFileNotFound

\* The handler of message m, of user u, does its check in this step and
\* finds the file accepted by process_image and dated current_date.
AcceptingStep(u, m) ==
  /\ sub[m].pc = "download" /\ sub'[m].pc = "finally"
  /\ sub[m].user = u
  /\ sub'[m].run.success
  /\ sub'[m].run.receipt_date = sub'[m].current_date

\* The session of u enters the FSM state in this step.
Enters(u, state) == fsm[u] # state /\ fsm'[u] = state

\* The four answers of the checkout as their handlers accept them.
ValidName(v) == Len(v) >= 2

ValidPhone(v) == isdigit(replace(v, "+", <<>>)) /\ Len(v) >= 10

ValidEmail(v) == Contains(v, "@") /\ Contains(v, ".") /\ Len(v) >= 5

ValidAddress(v) == Len(v) >= 10

\* The session of u goes from one checkout state to the next in this step
\* only.
OnlyFrom(u, state, before) == Enters(u, state) => fsm[u] = before

\* The session is in WAITING_FOR_RECEIPT only after the four answers were
\* stored, each valid and each in its turn.
CheckoutInOrder(u) ==
  /\ OnlyFrom(u, "WAITING_FOR_CUSTOMER_PHONE", "WAITING_FOR_CUSTOMER_NAME")
  /\ OnlyFrom(u, "WAITING_FOR_CUSTOMER_EMAIL", "WAITING_FOR_CUSTOMER_PHONE")
  /\ OnlyFrom(u, "WAITING_FOR_DELIVERY_ADDRESS", "WAITING_FOR_CUSTOMER_EMAIL")
  /\ OnlyFrom(u, "WAITING_FOR_RECEIPT", "WAITING_FOR_DELIVERY_ADDRESS")
  /\ Enters(u, "WAITING_FOR_CUSTOMER_PHONE") => ValidName(data'[u].customer_name)
  /\ Enters(u, "WAITING_FOR_CUSTOMER_EMAIL") =>
       ValidName(data'[u].customer_name) /\ ValidPhone(data'[u].phone)
  /\ Enters(u, "WAITING_FOR_DELIVERY_ADDRESS") =>
       /\ ValidName(data'[u].customer_name) /\ ValidPhone(data'[u].phone)
       /\ ValidEmail(data'[u].customer_email)
  /\ Enters(u, "WAITING_FOR_RECEIPT") =>
       /\ ValidName(data'[u].customer_name) /\ ValidPhone(data'[u].phone)
       /\ ValidEmail(data'[u].customer_email)
       /\ ValidAddress(data'[u].delivery_address)

\* The session of u enters ORDER_PAID from WAITING_FOR_RECEIPT only, and
\* only in the step of a handler that found the receipt accepted.
PaidFromReceipt(u) ==
  Enters(u, "ORDER_PAID") =>
    /\ fsm[u] = "WAITING_FOR_RECEIPT"
    /\ \E m \in 1..MaxMsgs : AcceptingStep(u, m)

\* C30: a session reaches ORDER_PAID only from WAITING_FOR_RECEIPT and only
\* in a handler run in which process_image accepted the file and the receipt
\* date equalled the current date; it reaches WAITING_FOR_RECEIPT only after
\* a valid name, phone, e-mail and delivery address were stored, in that
\* order.
C30_PaidOnlyAfterCheckout ==
  [][\A u \in Users : PaidFromReceipt(u) /\ CheckoutInOrder(u)]_vars

\* C29: with the handlers registered as at startup, an admin who sends "add
\* product" in ADMIN_PRODUCTS, then a name, a description, a positive price,
\* a category button and the specifications has a Product inserted and is
\* back in ADMIN_PRODUCTS.
C29_ProductCreated ==
  \A u \in Users :
    admin.script = 6 => (fsm[u] = "ADMIN_PRODUCTS" /\ admin.inserted)

\* C32: once process_payment_receipt has sent the success confirmation and
\* set ORDER_PAID, it returns with the session still in ORDER_PAID and its
\* data intact, whatever the cleanup steps do.
C32_PaidSurvivesCleanup ==
  [][\A m \in 1..MaxMsgs :
       (/\ HandlerReturns(m)
        /\ sub[m].result = "accepted"
        /\ fsm[sub[m].user] = "ORDER_PAID") =>
         /\ fsm'[sub[m].user] = "ORDER_PAID"
         /\ data'[sub[m].user] = data[sub[m].user]]_vars

\* C34: two distinct accepted submissions never have the same archived
\* path, also when they are of the same user and extension.
C34_ArchivePathsDistinct ==
  \A m1, m2 \in 1..MaxMsgs :
    (/\ sub[m1].result = "accepted" /\ sub[m2].result = "accepted"
     /\ sub[m1].run.receipt_path = sub[m2].run.receipt_path) => m1 = m2

\* ------------------------------------------------------------ cart: properties
\* The FSM states of a session between process_cart_checkout and ORDER_PAID.
CheckoutStates ==
  {"WAITING_FOR_CUSTOMER_NAME", "WAITING_FOR_CUSTOMER_PHONE",
   "WAITING_FOR_CUSTOMER_EMAIL", "WAITING_FOR_DELIVERY_ADDRESS",
   "WAITING_FOR_RECEIPT"}

\* C31: from the moment process_cart_checkout stores total_sum until the
\* session reaches ORDER_PAID the session cart does not change, so the cart
\* the order notification lists is the one checked out and adds up to the
\* stored total_sum.
C31_CartFixedAfterCheckout ==
  [][\A u \in Users :
       (/\ fsm[u] \in CheckoutStates
        /\ fsm'[u] \in CheckoutStates \cup {"ORDER_PAID"}
        /\ called'.op # "process_cart_checkout") =>
         /\ data'[u].cart = data[u].cart
         /\ CartSum(data'[u].cart) = data'[u].total_sum]_vars

\* The step is a run of process_cart_callback with this action.
CartCallback(action) ==
  called'.op = "process_cart_callback" /\ called'.action = action

\* C36: every item in the session cart has a quantity of at least 1;
\* decrease on an item of quantity 1 leaves the cart as it was, and remove
\* deletes the named item and no other.
C36_CartQuantities ==
  [][\A u \in Users :
       /\ \A item \in data'[u].cart : item.quantity >= 1
       /\ (/\ CartCallback("decrease")
           /\ \E item \in data[u].cart :
                item.id = called'.product_id /\ item.quantity = 1) =>
            data'[u].cart = data[u].cart
       /\ CartCallback("remove") =>
            data'[u].cart =
              {item \in data[u].cart : item.id # called'.product_id}]_vars

\* decrease has run on an item of quantity 1 in a cart of two items.
C36_Witness ==
  /\ called.op = "process_cart_callback" /\ called.action = "decrease"
  /\ \E u \in Users :
       /\ Cardinality(data[u].cart) = 2
       /\ \A item \in data[u].cart : item.quantity = 1

\* The step is a run of the checkout handler op on a text that fails its
\* validation.
FailsValidation(op) ==
  /\ called'.op = op
  /\ ~called'.text.none
  /\ LET v == strip(called'.text.val)
     IN  CASE op = "process_customer_name" -> ~ValidName(v)
           [] op = "process_customer_phone" -> ~ValidPhone(v)
           [] op = "process_customer_email" -> ~ValidEmail(lower(v))
           [] op = "process_delivery_address" -> ~ValidAddress(v)

CartShown(u) ==
  /\ admin.handler = "cart_handler"
  /\ admin.reply = "your cart"
  /\ data[u].cart # {}

\* C38: the total cart_handler shows for a cart is the total_sum that
\* process_cart_checkout computes for the same cart, also after an admin
\* has re-priced or deleted products that are in the cart.
C38_ShownTotalIsCheckoutTotal ==
  \A u \in Users : CartShown(u) => admin.shown = CartSum(data[u].cart)

\* Every product of the table, re-priced or not, and every product created
\* through the chat has a price above 0.
PricesPositive ==
  /\ \A p \in admin.catalogue : FloatGt(p.price, 0)
  /\ \A i \in DOMAIN admin.products : FloatGt(admin.products[i].price, 0)

CategoriesValid ==
  \A i \in DOMAIN admin.products :
    admin.products[i].category \in {"cosmetics", "electronics"}

\* The step is a price or category handler turning its input down.
Rejects ==
  \/ /\ admin'.handler \in {"handle_add_product_price",
                            "process_new_product_price"}
     /\ admin'.reply = "please enter a correct number for the price"
  \/ /\ admin'.handler = "handle_add_product_category"
     /\ admin'.reply = "please choose a category from the list"

RejectedInputNoEffect ==
  Rejects => /\ fsm' = fsm
             /\ admin'.catalogue = admin.catalogue
             /\ admin'.products = admin.products

\* C39: after any sequence of admin operations every product created or
\* re-priced through the admin chat has a price strictly above 0 and every
\* created product has the category cosmetics or electronics; a rejected
\* price or category input leaves the FSM state and the products table
\* unchanged.
C39_AdminProductsValid ==
  /\ [](PricesPositive /\ CategoriesValid)
  /\ [][RejectedInputNoEffect]_vars

\* C35: the cart of a session is changed only by the cart callbacks: a
\* message handler (/shop, the category buttons, the review flow, the admin
\* login and the admin product handlers) leaves the cart as it was.
C35_CartChangedOnlyByCallbacks ==
  [][\A u \in Users :
       feed_update(u, CatalogueTexts) => data'[u].cart = data[u].cart]_vars

\* ------------------------------------------------------------ admin login: properties
AdminStates ==
  {"ADMIN_MENU", "ADMIN_PRODUCTS", "EDITING_PRODUCT",
   "WAITING_FOR_PRODUCT_NAME", "WAITING_FOR_PRODUCT_DESCRIPTION",
   "WAITING_FOR_PRODUCT_PRICE", "WAITING_FOR_PRODUCT_CATEGORY",
   "WAITING_FOR_PRODUCT_SPECIFICATIONS", "WAITING_FOR_NEW_PRODUCT_NAME",
   "WAITING_FOR_NEW_PRODUCT_PRICE", "WAITING_FOR_NEW_PRODUCT_DESCRIPTION",
   "WAITING_FOR_NEW_PRODUCT_SPECS", "WAITING_FOR_PRODUCT_ID_TO_DELETE"}

\* C33: a session is in an admin state only if check_auth_code has received
\* the right authorisation code since the session was last reset; a wrong
\* code resets the session and enters no admin state.
C33_AdminOnlyAfterAuth ==
  \A u \in Users : fsm[u] \in AdminStates => admin.authorized[u]

\* ------------------------------------------------------------ notification: properties
\* The latest notification call could not deliver: the credential is
\* missing, there is no content, or the SMTP session raised.
SendFailed ==
  \/ ~Truthy(notified.password)
  \/ ~Truthy(notified.text_content) /\ ~Truthy(notified.html_content)
  \/ notified.smtp \in {"connect_error", "login_error", "send_error"}

\* C20: a send operation of the notification code never raises, and when the
\* credential or the content is missing or the transport fails it returns
\* False.
C20_FailsClosed ==
  notified.op # "none" =>
    /\ ~notified.raise
    /\ SendFailed => notified.returned = "False"
=============================================================================
